---- MODULE Spec2Model ----
(***************************************************************************)
(* melody_lab: the operation library (service.py), the melody value        *)
(* (melody.py) and the lazy formula node (formula.py).                     *)
(*                                                                         *)
(* Durations are exact rationals, written as whole numbers of one common   *)
(* unit (the finest subdivision in use), so that duration / grid_size is   *)
(* the exact quotient: int(d / g) is d \div g and the quotient is whole    *)
(* iff d % g = 0.                                                          *)
(* A Python Optional is a sequence of length 0 (None) or 1 (the value).    *)
(***************************************************************************)
EXTENDS Integers, Sequences, FiniteSets, TLC

VARIABLES
    \* ---- one call of MelodyService.GenerateMelody ----
    args,            \* the call's arguments
    pc,              \* position in the call
    melody,          \* local `melody` (the events, in order)
    chosen_pitches,  \* local `chosen_pitches`
    error,           \* the message of the raised Exception, None if none
    inserted,        \* the pitch drawn by the last pass of the insertion loop
    \* ---- a graph of MelodyFormula nodes ----
    params,          \* params[n]: MelodyFormula.params of node n
    value,           \* value[n]: MelodyFormula._value of node n
    stack,           \* the active calls of the `value` property, innermost last
    exc,             \* the exception propagating up the stack, None if none
    \* ---- what the owner of the graph observes ----
    lastop,          \* the last operation the owner started
    hooks,           \* the hooks invoked since that operation started, in order
    invoked,         \* the service method calls made since it started, in order
    unwound,         \* the nodes whose `value` call an exception has left
    outcome,         \* what the last `value` read of the owner ended with
    \* ---- one call of an operation of the library on Melody objects ----
    call,            \* the operation and its arguments (melodies by object id)
    heap,            \* heap[id]: the events of Melody object id
    result           \* None until the call ends, then what it ended with

genvars == <<args, pc, melody, chosen_pitches, error, inserted>>

graphvars == <<params, value, stack, exc, lastop, hooks, invoked, unwound, outcome>>

libvars == <<call, heap, result>>

vars == <<args, pc, melody, chosen_pitches, error, inserted,
          params, value, stack, exc, lastop, hooks, invoked, unwound, outcome,
          call, heap, result>>

(***************************************************************************)
(* Bounds of the model                                                     *)
(***************************************************************************)
MaxLength == 3
MaxDuration == 4
MaxGrid == 2
NumPitches == 3
\* frames of the `value` property the interpreter allows before RecursionError
MaxDepth == 4
\* the longest melody a node of the graph is let to cache
MaxEvents == 2

None == <<>>
Some(x) == <<x>>

DurationModes == {"Minimum", "Maximum", "Random", "Fixed"}

PitchUniverse == 1..NumPitches

\* music21's Note() carries the pitch C4 until one is assigned.
DefaultPitch == 0

(***************************************************************************)
(* Events and melodies (melody.py)                                         *)
(***************************************************************************)
Note(p, d) == [kind |-> "Note", pitch |-> p, dur |-> d]
Rest(d) == [kind |-> "Rest", dur |-> d]

IsNote(e) == e.kind = "Note"
IsRest(e) == e.kind = "Rest"

\* Melody.notes: the Notes of the melody, in order
notes(m) == SelectSeq(m, IsNote)

\* Melody.length: the number of Notes
length(m) == Len(notes(m))

RECURSIVE SumDur(_)
SumDur(m) == IF m = <<>> THEN 0 ELSE Head(m).dur + SumDur(Tail(m))

\* normalize.drop_null_rests
IsNotNullRest(e) == ~(IsRest(e) /\ e.dur = 0)
drop_null_rests(m) == SelectSeq(m, IsNotNullRest)

\* normalize.join_consecutive_rests: pairwise over the events, left to right,
\* each pair mutating the two events in place
RECURSIVE JoinFrom(_, _)
JoinFrom(m, i) ==
    IF i >= Len(m) THEN m
    ELSE IF IsRest(m[i]) /\ IsRest(m[i + 1])
         THEN JoinFrom([m EXCEPT ![i + 1] = Rest(m[i + 1].dur + m[i].dur),
                                 ![i] = Rest(0)], i + 1)
         ELSE JoinFrom(m, i + 1)

join_consecutive_rests(m) == JoinFrom(m, 1)

\* a slip: the Rests are not joined
normalize_DropOnly(m) == drop_null_rests(m)

\* Melody.normalize
normalize(m) == drop_null_rests(join_consecutive_rests(drop_null_rests(m)))

(***************************************************************************)
(* random.shuffle / random.sample / sorted                                 *)
(***************************************************************************)
\* every order random.shuffle can leave a list in
Shuffles(s) ==
    {[i \in 1..Len(s) |-> s[f[i]]] : f \in Permutations(1..Len(s))}

RECURSIVE SortedSeq(_)
SortedSeq(S) ==
    IF S = {} THEN <<>>
    ELSE LET lo == CHOOSE x \in S : \A y \in S : x <= y
         IN <<lo>> \o SortedSeq(S \ {lo})

Repeat(x, n) == [i \in 1..n |-> x]

\* list(set(pitches)): the distinct pitches
SetOf(s) == {s[i] : i \in 1..Len(s)}

(***************************************************************************)
(* GenerateMelody: validation (service.py 98-144)                          *)
(***************************************************************************)
Slots(a) == a.duration \div a.grid_size
Divides(g, d) == d % g = 0

\* `not note_duration`: None and 0 are both falsy
NoteDurationUnset(a) == a.note_duration = None \/ a.note_duration[1] = 0

\* "empty": return Melody(); "ok": go on; otherwise the Exception's message
Validate(a) ==
    IF a.length <= 0 THEN "empty"
    ELSE IF a.duration < a.grid_size
        THEN "Duration must be greater than grid_size"
    ELSE IF ~Divides(a.grid_size, a.duration)
        THEN "Duration is not evenly divisible by grid_size"
    ELSE IF Slots(a) < a.length
        THEN "Too many notes for given duration and grid_size"
    ELSE IF a.duration_mode = "Fixed" /\ NoteDurationUnset(a)
        THEN "Note length not set"
    ELSE IF a.duration_mode = "Fixed" /\ a.note_duration[1] * a.length > a.duration
        THEN "Too many notes for given durations"
    ELSE IF a.duration_mode = "Fixed" /\ a.note_duration[1] < a.grid_size
        THEN "Note duration must be greater than grid_size"
    ELSE IF a.duration_mode = "Fixed" /\ ~Divides(a.grid_size, a.note_duration[1])
        THEN "Note duration is not evenly divisible by grid_size"
    ELSE IF a.alternate /\ Cardinality(SetOf(a.pitches)) < 2
        THEN "Too few pitches to alternate"
    ELSE IF a.use_all /\ Cardinality(SetOf(a.pitches)) > a.length
        THEN "Too short length to use all notes"
    ELSE "ok"

(***************************************************************************)
(* GenerateMelody: 1. durations of notes and rests (service.py 149-237)    *)
(***************************************************************************)
grid_indices(a) == 0..(Slots(a) - 1)

\* random.sample(grid_indices, k=length), sorted, with the sentinel appended
NoteIndices(a) ==
    {SortedSeq(S) \o <<Slots(a)>> :
        S \in {T \in SUBSET grid_indices(a) : Cardinality(T) = a.length}}

\* a slip: the span is drawn at random in the Maximum mode too
NoteGridChoices_AlwaysRandom(mode, grid_between) ==
    IF grid_between = 0 THEN {1} ELSE 1..grid_between

\* the note spans the code can pick for a gap of grid_between slots
NoteGridChoices(mode, grid_between) ==
    IF grid_between = 0 THEN {1}
    ELSE IF mode = "Random" THEN 1..grid_between
    ELSE {grid_between}

RestGrid(grid_between, note_grid) ==
    IF grid_between = 0 THEN 0 ELSE grid_between - note_grid

\* the Note, and the Rest if there is room for one, between two start slots
PairObjects(a, grid_between, note_grid) ==
    <<Note(DefaultPitch, note_grid * a.grid_size)>> \o
    (IF RestGrid(grid_between, note_grid) # 0
     THEN <<Rest(RestGrid(grid_between, note_grid) * a.grid_size)>>
     ELSE <<>>)

RECURSIVE WalkPairs(_, _, _, _)
WalkPairs(a, note_indices, note_grid, i) ==
    IF i >= Len(note_indices) THEN <<>>
    ELSE PairObjects(a, note_indices[i + 1] - note_indices[i], note_grid[i])
         \o WalkPairs(a, note_indices, note_grid, i + 1)

FirstRest(a, note_indices) ==
    IF note_indices[1] * a.grid_size # 0
    THEN <<Rest(note_indices[1] * a.grid_size)>>
    ELSE <<>>

NoteGrids(a, note_indices) ==
    {ng \in [1..a.length -> 1..Slots(a)] :
        \A i \in 1..a.length :
            ng[i] \in NoteGridChoices(a.duration_mode,
                                      note_indices[i + 1] - note_indices[i])}

\* every melody_objects list the Random / Maximum branch can build
RandomMaxRhythms(a) ==
    UNION {{FirstRest(a, ni) \o WalkPairs(a, ni, ng, 1) : ng \in NoteGrids(a, ni)} :
            ni \in NoteIndices(a)}

FixedNoteDuration(a) ==
    IF a.duration_mode = "Minimum" THEN a.grid_size ELSE a.note_duration[1]

\* a slip: the notes counted as one slot each
n_rests_OneSlotPerNote(a) == Slots(a) - a.length

n_rests(a) == Slots(a) - ((a.length * FixedNoteDuration(a)) \div a.grid_size)

\* every melody the Minimum / Fixed branch can build: shuffle, then normalize
MinFixedRhythms(a) ==
    {normalize(s) :
        s \in Shuffles(Repeat(Note(DefaultPitch, FixedNoteDuration(a)), a.length)
                       \o Repeat(Rest(a.grid_size), n_rests(a)))}

Rhythms(a) ==
    IF a.duration_mode \in {"Random", "Maximum"}
    THEN RandomMaxRhythms(a)
    ELSE MinFixedRhythms(a)

(***************************************************************************)
(* GenerateMelody: 2. pitches of the notes (service.py 239-318)            *)
(***************************************************************************)
\* random.choices(population, k): IndexError on an empty population, k > 0
Choices(population, k) == [1..k -> population]

ChoicesRaises(population, k) == population = {} /\ k > 0

\* the list `pitches` after list(set(pitches)), in any order
PitchLists(a) == Shuffles(SortedSeq(SetOf(a.pitches)))

\* a slip: use_all is ignored
DirectPitches_IgnoresUseAll(a) ==
    UNION {Shuffles(c) : c \in Choices(SetOf(a.pitches), a.length)}

\* chosen_pitches when alternate is off
DirectPitches(a) ==
    IF ~a.use_all
    THEN UNION {Shuffles(c) : c \in Choices(SetOf(a.pitches), a.length)}
    ELSE UNION {Shuffles(pl \o c) :
                  pl \in PitchLists(a),
                  c \in Choices(SetOf(a.pitches),
                                a.length - Cardinality(SetOf(a.pitches)))}

DirectRaises(a) ==
    IF ~a.use_all
    THEN ChoicesRaises(SetOf(a.pitches), a.length)
    ELSE ChoicesRaises(SetOf(a.pitches), a.length - Cardinality(SetOf(a.pitches)))

\* chosen_pitches before the insertion loop when alternate is on
SeedPitches(a) == IF a.use_all THEN PitchLists(a) ELSE {<<>>}

prev_pitch(chosen, idx) == IF idx > 0 THEN Some(chosen[idx]) ELSE None
next_pitch(chosen, idx) == IF idx < Len(chosen) THEN Some(chosen[idx + 1]) ELSE None

\* a slip: only the pitch before the index is compared
can_insert_pitch_PrevOnly(chosen, idx, pitch) ==
    prev_pitch(chosen, idx) # Some(pitch)

\* idx is the 0-based list index the pitch would be inserted at
can_insert_pitch(chosen, idx, pitch) ==
    prev_pitch(chosen, idx) # Some(pitch) /\ next_pitch(chosen, idx) # Some(pitch)

\* a slip: the pitch takes the place of the one at the index
InsertAt_Overwrites(chosen, idx, pitch) ==
    IF idx < Len(chosen) THEN [chosen EXCEPT ![idx + 1] = pitch]
    ELSE Append(chosen, pitch)

\* list.insert(idx, pitch)
InsertAt(chosen, idx, pitch) ==
    SubSeq(chosen, 1, idx) \o <<pitch>> \o SubSeq(chosen, idx + 1, Len(chosen))

\* one pass of `while len(chosen_pitches) < length` for the drawn pitch: the inner
\* loop tries the indices in random order until one fits, and gives up when none does
InsertPass(chosen, pitch) ==
    LET fits == {idx \in 0..Len(chosen) : can_insert_pitch(chosen, idx, pitch)}
    IN IF fits = {} THEN {chosen}
       ELSE {InsertAt(chosen, idx, pitch) : idx \in fits}

\* `for note, pitch in zip(melody.notes, chosen_pitches): note.pitch = pitch`
RECURSIVE AssignPitches(_, _)
AssignPitches(m, chosen) ==
    IF m = <<>> THEN <<>>
    ELSE IF IsNote(Head(m)) /\ chosen # <<>>
         THEN <<Note(Head(chosen), Head(m).dur)>> \o AssignPitches(Tail(m), Tail(chosen))
         ELSE <<Head(m)>> \o AssignPitches(Tail(m), chosen)

(***************************************************************************)
(* GenerateMelody as one call: every result it can return or raise         *)
(***************************************************************************)
Returned(m) == [ok |-> TRUE, melody |-> m]
Raised(msg) == [ok |-> FALSE, error |-> msg]

\* the insertion loop run to its end: every list it can stop with
InsertSteps(chosen, pitches) ==
    UNION {InsertPass(chosen, p) \ {chosen} : p \in pitches}

RECURSIVE InsertLoop(_, _, _)
InsertLoop(S, pitches, len) ==
    IF \A chosen \in S : Len(chosen) >= len THEN S
    ELSE InsertLoop(UNION {IF Len(chosen) >= len THEN {chosen}
                           ELSE InsertSteps(chosen, pitches) : chosen \in S},
                    pitches, len)

AlternatePitches(a) == InsertLoop(SeedPitches(a), SetOf(a.pitches), a.length)

GenerateMelody(a) ==
    IF Validate(a) = "empty" THEN {Returned(<<>>)}
    ELSE IF Validate(a) # "ok" THEN {Raised(Validate(a))}
    ELSE IF ~a.alternate /\ DirectRaises(a) THEN {Raised("IndexError")}
    ELSE {Returned(AssignPitches(m, chosen)) :
            m \in Rhythms(a),
            chosen \in (IF a.alternate THEN AlternatePitches(a) ELSE DirectPitches(a))}

(***************************************************************************)
(* ConcatMelodies (service.py 701-720), Melody.__add__ (melody.py 20-24)   *)
(***************************************************************************)
\* bool(x) of an Optional[Melody]: None is falsy, and so is a Stream with no elements
Truthy(v) == v # None /\ v[1] # <<>>

\* a slip: the operands are joined in the wrong order
MelodyAdd_Reversed(x, y) == y \o x

\* Melody.__add__
MelodyAdd(x, y) == x \o y

RECURSIVE Reduce(_)
Reduce(melodies) ==
    IF Len(melodies) = 1 THEN melodies[1][1]
    ELSE MelodyAdd(Reduce(SubSeq(melodies, 1, Len(melodies) - 1)),
                   melodies[Len(melodies)][1])

ConcatMelodies(melody_1, melody_2, melody_3, melody_4) ==
    LET melodies == SelectSeq(<<melody_1, melody_2, melody_3, melody_4>>, Truthy)
    IN IF melodies = <<>> THEN {Returned(<<>>)}
       ELSE {Returned(Reduce(melodies))}

(***************************************************************************)
(* Melody.crop_length (melody.py 78-110)                                   *)
(***************************************************************************)
\* the loop over the events: new_objects when it ends or breaks
RECURSIVE CropWalk(_, _, _, _, _)
CropWalk(m, i, new_objects, notes_count, limit) ==
    IF i > Len(m) THEN new_objects
    ELSE IF IsNote(m[i])
         THEN IF notes_count + 1 = limit
              THEN Append(new_objects, m[i])
              ELSE CropWalk(m, i + 1, Append(new_objects, m[i]), notes_count + 1, limit)
         ELSE CropWalk(m, i + 1, Append(new_objects, m[i]), notes_count, limit)

\* a slip: the Rests after the last kept Note are kept as well
crop_length_KeepsAllRests(m, limit) ==
    IF limit <= 0 THEN <<>>
    ELSE LET Kept(i) == IsRest(m[i]) \/ length(SubSeq(m, 1, i)) <= limit
             RECURSIVE Walk(_)
             Walk(i) == IF i > Len(m) THEN <<>>
                        ELSE (IF Kept(i) THEN <<m[i]>> ELSE <<>>) \o Walk(i + 1)
         IN Walk(1)

crop_length(m, limit) ==
    IF limit <= 0 THEN <<>>
    ELSE CropWalk(m, 1, <<>>, 0, limit)

(***************************************************************************)
(* The pitch transforms (service.py 323-650)                               *)
(***************************************************************************)
AmountModes == {"Minimum", "Maximum", "Random", "Fixed"}

\* the pitches of the Notes, in order
Pitches(m) == [i \in 1..length(m) |-> notes(m)[i].pitch]

\* random.randint(a, b): ValueError when the range is empty
RandInt(a, b) == a..b

\* `not amount` of an Optional[int]: None and 0 are falsy
AmountUnset(amount) == amount = None \/ amount[1] = 0

\* `amount` after the mode is applied (the Fixed mode leaves the argument alone)
ResolveAmount(amount_mode, amount, min_amount, max_amount, random_amount) ==
    CASE amount_mode = "Minimum" -> Some(min_amount)
      [] amount_mode = "Maximum" -> Some(max_amount)
      [] amount_mode = "Random" -> Some(random_amount)
      [] OTHER -> amount

\* list slices s[a:] and s[:a], with Python's handling of negative and large indices
SliceIndex(s, a) ==
    IF a < 0 THEN (IF a + Len(s) < 0 THEN 0 ELSE a + Len(s))
    ELSE IF a > Len(s) THEN Len(s) ELSE a
SliceFrom(s, a) == SubSeq(s, SliceIndex(s, a) + 1, Len(s))
SliceTo(s, a) == SubSeq(s, 1, SliceIndex(s, a))

\* random.sample(range(n), k) as a list: the injective index lists (1-based);
\* ValueError when k < 0 or k > n
Samples(n, k) ==
    {s \in [1..k -> 1..n] : \A i, j \in 1..k : s[i] = s[j] => i = j}
SampleRaises(n, k) == k < 0 \/ k > n

\* a slip: the list is not rotated at all
ShiftedPitches_Unshifted(ps, amount) == ps

\* shifted_notes[amount:] + shifted_notes[:amount]
ShiftedPitches(ps, amount) == SliceFrom(ps, amount) \o SliceTo(ps, amount)

\* service.py 436-488
ShiftPitch(m, amount_mode, amount) ==
    LET min_amount == 1
        max_amount == length(m) - 1
    IN IF RandInt(min_amount, max_amount) = {} THEN {Raised("ValueError")}
       ELSE UNION {
              LET a == ResolveAmount(amount_mode, amount, min_amount, max_amount,
                                     random_amount)
              IN IF length(m) < 2 THEN {Returned(m)}
                 ELSE IF AmountUnset(a) THEN {Raised("Invalid amount")}
                 ELSE {Returned(AssignPitches(m, ShiftedPitches(Pitches(m), a[1])))}
              : random_amount \in RandInt(min_amount, max_amount)}

\* the pitches after `note_1.pitch, note_2.pitch = note_2.pitch, note_1.pitch` for
\* each batch of two of notes_to_change (given as Note positions)
RECURSIVE SwapPairs(_, _)
SwapPairs(ps, notes_to_change) ==
    IF Len(notes_to_change) < 2 THEN ps
    ELSE LET i == notes_to_change[1]
             j == notes_to_change[2]
         IN SwapPairs([ps EXCEPT ![i] = ps[j], ![j] = ps[i]],
                      SubSeq(notes_to_change, 3, Len(notes_to_change)))

\* a slip: the Notes are drawn with replacement, so pairs may overlap
SwapSamples_WithReplacement(n, k) == [1..k -> 1..n]

\* random.sample(melody.notes, k=amount * 2), shuffled
SwapSamples(n, k) == Samples(n, k)

\* service.py 383-434
SwapPitch(m, amount_mode, amount) ==
    LET min_amount == 1
        max_amount == length(m) \div 2
    IN IF RandInt(min_amount, max_amount) = {} THEN {Raised("ValueError")}
       ELSE UNION {
              LET a == ResolveAmount(amount_mode, amount, min_amount, max_amount,
                                     random_amount)
              IN IF length(m) < 2 THEN {Raised("melody.length < 2")}
                 ELSE IF AmountUnset(a) THEN {Raised("Invalid amount")}
                 ELSE IF SampleRaises(length(m), a[1] * 2) THEN {Raised("ValueError")}
                 ELSE {Returned(AssignPitches(m, SwapPairs(Pitches(m), s))) :
                         s \in SwapSamples(length(m), a[1] * 2)}
              : random_amount \in RandInt(min_amount, max_amount)}

\* a slip: each pitch is read from the melody while it is being changed
RECURSIVE ShuffledPitches_ReadsLive(_, _, _)
ShuffledPitches_ReadsLive(ps, note_indexes, shuffled_indexes) ==
    IF note_indexes = <<>> THEN ps
    ELSE ShuffledPitches_ReadsLive(
             [ps EXCEPT ![Head(note_indexes)] = ps[Head(shuffled_indexes)]],
             Tail(note_indexes), Tail(shuffled_indexes))

\* the pitches after melody.notes[note_indexes[j]].pitch = the pitch the Note at
\* shuffled_indexes[j] had
ShuffledPitches(ps, note_indexes, shuffled_indexes) ==
    [i \in 1..Len(ps) |->
        IF \E j \in 1..Len(note_indexes) : note_indexes[j] = i
        THEN ps[shuffled_indexes[CHOOSE j \in 1..Len(note_indexes) : note_indexes[j] = i]]
        ELSE ps[i]]

\* service.py 490-554
ShufflePitch(m, amount_mode, amount) ==
    LET min_amount == 2
        max_amount == length(m)
    IN IF RandInt(min_amount, max_amount) = {} THEN {Raised("ValueError")}
       ELSE UNION {
              LET a == ResolveAmount(amount_mode, amount, min_amount, max_amount,
                                     random_amount)
              IN IF length(m) < 2 THEN {Returned(m)}
                 ELSE IF AmountUnset(a) THEN {Raised("Invalid amount")}
                 ELSE IF a[1] > length(m) THEN {Raised("amount > melody.length")}
                 ELSE IF SampleRaises(length(m), a[1]) THEN {Raised("ValueError")}
                 ELSE UNION {
                        {Returned(AssignPitches(m,
                            ShuffledPitches(Pitches(m), note_indexes, shuffled_indexes))) :
                           shuffled_indexes \in Shuffles(note_indexes)}
                        : note_indexes \in Samples(length(m), a[1])}
              : random_amount \in RandInt(min_amount, max_amount)}

\* a slip: the mapping is applied to every Note holding a mapped pitch
RemappedPitches_AllNotes(ps, notes_to_change, pitches, shuffled_pitches) ==
    [i \in 1..Len(ps) |->
        IF \E k \in 1..Len(pitches) : pitches[k] = ps[i]
        THEN shuffled_pitches[CHOOSE k \in 1..Len(pitches) : pitches[k] = ps[i]]
        ELSE ps[i]]

\* pitches_mapping = dict(zip(pitches, shuffled_pitches)) applied to the chosen Notes
RemappedPitches(ps, notes_to_change, pitches, shuffled_pitches) ==
    [i \in 1..Len(ps) |->
        IF \E j \in 1..Len(notes_to_change) : notes_to_change[j] = i
        THEN shuffled_pitches[CHOOSE k \in 1..Len(pitches) : pitches[k] = ps[i]]
        ELSE ps[i]]

\* service.py 556-618
RemapPitch(m, amount_mode, amount) ==
    LET min_amount == 2
        max_amount == length(m)
    IN IF RandInt(min_amount, max_amount) = {} THEN {Raised("ValueError")}
       ELSE UNION {
              LET a == ResolveAmount(amount_mode, amount, min_amount, max_amount,
                                     random_amount)
              IN IF length(m) < 2 THEN {Returned(m)}
                 ELSE IF AmountUnset(a) THEN {Raised("Invalid amount")}
                 ELSE IF a[1] > length(m) THEN {Raised("amount > melody.length")}
                 ELSE IF SampleRaises(length(m), a[1]) THEN {Raised("ValueError")}
                 ELSE UNION {
                        LET pitches == SortedSeq({Pitches(m)[notes_to_change[j]] :
                                                    j \in 1..Len(notes_to_change)})
                        IN {Returned(AssignPitches(m,
                               RemappedPitches(Pitches(m), notes_to_change, pitches,
                                               shuffled_pitches))) :
                              shuffled_pitches \in Shuffles(pitches)}
                        : notes_to_change \in Samples(length(m), a[1])}
              : random_amount \in RandInt(min_amount, max_amount)}

\* a slip: only the first and the last element change places
Reversed_EndsOnly(s) ==
    [i \in 1..Len(s) |-> IF i = 1 THEN s[Len(s)] ELSE IF i = Len(s) THEN s[1] ELSE s[i]]

\* reversed(melody_notes)
Reversed(s) == [i \in 1..Len(s) |-> s[Len(s) + 1 - i]]

\* service.py 620-650
RevertPitch(m) ==
    IF length(m) < 2 THEN {Returned(m)}
    ELSE {Returned(AssignPitches(m, Reversed(Pitches(m))))}

\* `pitches or [n.pitch for n in melody.notes]`, then list(set(pitches)): a set
NewPitches(m, pitches) ==
    IF pitches = None \/ pitches[1] = <<>> THEN SetOf(Pitches(m)) ELSE SetOf(pitches[1])

\* the pitches after `note.pitch = random_pitch` for each Note of notes_to_change
\* (Note positions, drawn with replacement: a later draw of a Note overrides)
RECURSIVE ChangedPitches(_, _, _)
ChangedPitches(ps, notes_to_change, random_pitches) ==
    IF notes_to_change = <<>> THEN ps
    ELSE ChangedPitches([ps EXCEPT ![Head(notes_to_change)] = Head(random_pitches)],
                        Tail(notes_to_change), Tail(random_pitches))

\* random.choices(seq, k) yields the empty list for k <= 0
ChoicesLists(population, k) == IF k <= 0 THEN {<<>>} ELSE Choices(population, k)

\* service.py 323-381
ChangePitch(m, amount_mode, amount, pitches) ==
    LET n == length(m)
        Run(a) ==
            IF amount_mode = "Fixed" /\ AmountUnset(a) THEN {Raised("Invalid amount")}
            ELSE IF amount_mode = "Fixed" /\ a[1] > n THEN {Raised("Invalid amount")}
            ELSE IF ChoicesRaises(1..n, a[1]) THEN {Raised("IndexError")}
            ELSE {Returned(AssignPitches(m,
                     ChangedPitches(Pitches(m), notes_to_change, random_pitches))) :
                    notes_to_change \in ChoicesLists(1..n, a[1]),
                    random_pitches \in ChoicesLists(NewPitches(m, pitches), a[1])}
    IN IF amount_mode = "Random"
       THEN IF RandInt(1, n) = {} THEN {Raised("ValueError")}
            ELSE UNION {Run(Some(random_amount)) : random_amount \in RandInt(1, n)}
       ELSE Run(ResolveAmount(amount_mode, amount, 1, n, 0))

(***************************************************************************)
(* ChangeRhythm (service.py 652-699)                                       *)
(***************************************************************************)
\* Pitch("C0"), the placeholder pitch of the generated rhythm
PitchC0 == -1

\* library.tools.Tools.fraction_gcd
RECURSIVE fraction_gcd(_, _)
fraction_gcd(x, y) == IF y = 0 THEN x ELSE fraction_gcd(y, x % y)

RECURSIVE GcdOf(_)
GcdOf(durations) ==
    IF durations = <<>> THEN 0
    ELSE IF Len(durations) = 1 THEN durations[1]
    ELSE fraction_gcd(GcdOf(SubSeq(durations, 1, Len(durations) - 1)),
                      durations[Len(durations)])

\* Melody.grid_size (melody.py 36-41); functools.reduce raises TypeError on no events
melody_grid_size(m) == GcdOf([i \in 1..Len(m) |-> m[i].dur])

\* `x or default` of an Optional number: None and 0 are falsy
OrElse(x, default) == IF x = None \/ x[1] = 0 THEN default ELSE x[1]

\* a slip: the generated melody is returned with the placeholder pitch
RestorePitches_KeepsFiller(another_melody, m) == another_melody

\* `note.pitch = melody.notes[idx].pitch` for the Notes of another_melody
RestorePitches(another_melody, m) == AssignPitches(another_melody, Pitches(m))

ChangeRhythm(m, duration, grid, duration_mode, note_duration) ==
    IF OrElse(grid, 0) = 0 /\ m = <<>> THEN {Raised("TypeError")}
    ELSE LET a == [pitches |-> <<PitchC0>>,
                   length |-> length(m),
                   duration |-> OrElse(duration, SumDur(m)),
                   grid_size |-> OrElse(grid, melody_grid_size(m)),
                   duration_mode |-> duration_mode,
                   note_duration |-> note_duration,
                   alternate |-> FALSE,
                   use_all |-> FALSE]
         IN {IF r.ok THEN Returned(RestorePitches(r.melody, m)) ELSE r :
               r \in GenerateMelody(a)}

(***************************************************************************)
(* SubstitutePitch, SubstituteRhythm (service.py 722-781)                  *)
(***************************************************************************)
\* a slip: the rhythm is never cropped
SubstitutePitch_NeverCrops(rhythm, sequence, crop_rhythm) ==
    {Returned(AssignPitches(rhythm, Pitches(sequence)))}

SubstitutePitch(rhythm, sequence, crop_rhythm) ==
    LET cropped == IF crop_rhythm /\ length(rhythm) > length(sequence)
                   THEN crop_length(rhythm, length(sequence))
                   ELSE rhythm
    IN {Returned(AssignPitches(cropped, Pitches(sequence)))}

SubstituteRhythm(sequence, rhythm) == SubstitutePitch(rhythm, sequence, TRUE)

(***************************************************************************)
(* The operations on Melody objects: what a call does to the objects it is *)
(* given, and which object it returns                                      *)
(***************************************************************************)
\* the call returned the Melody object id
Ref(id) == [ok |-> TRUE, ref |-> id]

\* the objects after the call, and how the call ended
Effect(h, r) == [heap |-> h, result |-> r]

\* a new Melody object
Allocate(h, m) == [heap |-> Append(h, m), id |-> Len(h) + 1]

\* a slip: the method works on the object it was given
deepcopy_SameObject(h, id) == [heap |-> h, id |-> id]

\* copy.deepcopy(melody): a new object with the same events
deepcopy(h, id) == Allocate(h, h[id])

\* `melody = copy.deepcopy(melody)`, the method body changing that object, `return melody`
OnCopy(c, outs) ==
    {IF o.ok THEN Effect([c.heap EXCEPT ![c.id] = o.melody], Ref(c.id))
     ELSE Effect(c.heap, o) : o \in outs}

ChangePitchOn(h, id, amount_mode, amount, pitches) ==
    LET c == deepcopy(h, id)
    IN OnCopy(c, ChangePitch(c.heap[c.id], amount_mode, amount, pitches))

SwapPitchOn(h, id, amount_mode, amount) ==
    LET c == deepcopy(h, id)
    IN OnCopy(c, SwapPitch(c.heap[c.id], amount_mode, amount))

ShiftPitchOn(h, id, amount_mode, amount) ==
    LET c == deepcopy(h, id)
    IN OnCopy(c, ShiftPitch(c.heap[c.id], amount_mode, amount))

ShufflePitchOn(h, id, amount_mode, amount) ==
    LET c == deepcopy(h, id)
    IN OnCopy(c, ShufflePitch(c.heap[c.id], amount_mode, amount))

RemapPitchOn(h, id, amount_mode, amount) ==
    LET c == deepcopy(h, id)
    IN OnCopy(c, RemapPitch(c.heap[c.id], amount_mode, amount))

RevertPitchOn(h, id) ==
    LET c == deepcopy(h, id)
    IN OnCopy(c, RevertPitch(c.heap[c.id]))

\* the result is the object GenerateMelody made
ChangeRhythmOn(h, id, duration, grid, duration_mode, note_duration) ==
    LET c == deepcopy(h, id)
    IN {IF o.ok THEN LET made == Allocate(c.heap, o.melody)
                     IN Effect(made.heap, Ref(made.id))
        ELSE Effect(c.heap, o) :
          o \in ChangeRhythm(c.heap[c.id], duration, grid, duration_mode, note_duration)}

SubstitutePitchOn(h, rhythm, sequence, crop_rhythm) ==
    LET r == deepcopy(h, rhythm)
        s == deepcopy(r.heap, sequence)
    IN OnCopy([heap |-> s.heap, id |-> r.id],
              SubstitutePitch(s.heap[r.id], s.heap[s.id], crop_rhythm))

SubstituteRhythmOn(h, sequence, rhythm) ==
    LET r == deepcopy(h, rhythm)
        s == deepcopy(r.heap, sequence)
    IN SubstitutePitchOn(s.heap, r.id, s.id, TRUE)

\* Melody.__add__ on objects x and y: both are copied, the copy of x is extended
AddOn(h, x, y) ==
    LET other == deepcopy(h, y)
        sum == deepcopy(other.heap, x)
    IN [heap |-> [sum.heap EXCEPT ![sum.id] = MelodyAdd(@, sum.heap[other.id])],
        id |-> sum.id]

\* functools.reduce(lambda x, y: x + y, melodies): one melody is returned as it is
RECURSIVE ReduceOn(_, _)
ReduceOn(h, ids) ==
    IF Len(ids) = 1 THEN [heap |-> h, id |-> ids[1]]
    ELSE LET acc == ReduceOn(h, SubSeq(ids, 1, Len(ids) - 1))
         IN AddOn(acc.heap, acc.id, ids[Len(ids)])

\* ConcatMelodies on objects; a slot holds an object id, or 0 for None
ConcatMelodiesOn(h, slots) ==
    LET IsTruthy(id) == id # 0 /\ h[id] # <<>>
        melodies == SelectSeq(slots, IsTruthy)
    IN IF melodies = <<>>
       THEN LET made == Allocate(h, <<>>) IN {Effect(made.heap, Ref(made.id))}
       ELSE LET sum == ReduceOn(h, melodies) IN {Effect(sum.heap, Ref(sum.id))}

(***************************************************************************)
(* MelodyFormula (formula.py): the nodes of the graph                      *)
(***************************************************************************)
\* method_name of each node
MethodOf == <<"GenerateMelody", "ConcatMelodies", "ConcatMelodies">>

Nodes == DOMAIN MethodOf

\* the keys of `params`, in the order for_service_method inserts them
ParamOrder(method) ==
    IF method = "GenerateMelody"
    THEN <<"pitches", "length", "duration", "grid_size",
           "duration_mode", "note_duration", "alternate", "use_all">>
    ELSE <<"melody_1", "melody_2", "melody_3", "melody_4">>

\* a value of `params`: a plain value (None included) or another MelodyFormula
Literal(x) == [kind |-> "literal", v |-> x]
Formula(n) == [kind |-> "formula", node |-> n]

\* for_service_method: params = {p.name: None for p in method_info.params}
InitialParams(method) ==
    [k \in SetOf(ParamOrder(method)) |-> Literal(None)]

\* getattr(MelodyService, method_name)(**kwargs), kwargs in the order of ParamOrder;
\* GenerateMelody raises TypeError on pitches = None (set(None)) and on
\* length = None (None <= 0)
service_method(method, kwargs) ==
    IF method = "GenerateMelody"
    THEN IF kwargs[1] = None \/ kwargs[2] = None THEN {Raised("TypeError")}
         ELSE GenerateMelody([pitches |-> kwargs[1][1],
                              length |-> kwargs[2][1],
                              duration |-> kwargs[3][1],
                              grid_size |-> kwargs[4][1],
                              duration_mode |-> kwargs[5][1],
                              note_duration |-> kwargs[6],
                              alternate |-> kwargs[7][1],
                              use_all |-> kwargs[8][1]])
    ELSE ConcatMelodies(kwargs[1], kwargs[2], kwargs[3], kwargs[4])

\* the state of the nodes after construction
GraphInit ==
    /\ params = [n \in Nodes |-> InitialParams(MethodOf[n])]
    /\ value = [n \in Nodes |-> None]
    /\ stack = <<>>
    /\ exc = None
    /\ lastop = [op |-> "init"]
    /\ hooks = <<>>
    /\ invoked = <<>>
    /\ unwound = <<>>
    /\ outcome = None

\* no operation of the library is being traced
LibIdle ==
    /\ call = None
    /\ heap = <<>>
    /\ result = None

(***************************************************************************)
(* One call of GenerateMelody, step by step                                *)
(***************************************************************************)
\* the pitch lists given: any order and multiplicity is the same set to the code
SortedLists(n) ==
    {s \in UNION {[1..k -> PitchUniverse] : k \in 0..n} :
        \A i \in 1..(Len(s) - 1) : s[i] <= s[i + 1]}

NoteDurations(mode) ==
    IF mode = "Fixed" THEN {None} \cup {Some(d) : d \in 0..MaxDuration} ELSE {None}

GenArgs ==
    {a \in [pitches : SortedLists(NumPitches + 1),
            length : (-1)..MaxLength,
            duration : 0..MaxDuration,
            grid_size : 1..MaxGrid,
            duration_mode : DurationModes,
            note_duration : {None} \cup {Some(d) : d \in 0..MaxDuration},
            alternate : BOOLEAN,
            use_all : BOOLEAN] :
        a.note_duration \in NoteDurations(a.duration_mode)}

GenInit ==
    /\ args \in GenArgs
    /\ pc = "validate"
    /\ melody = <<>>
    /\ chosen_pitches = <<>>
    /\ error = None
    /\ inserted = None
    /\ GraphInit
    /\ LibIdle

\* service.py 104-105: length <= 0 returns Melody()
GenReturnEmpty ==
    /\ pc = "validate"
    /\ Validate(args) = "empty"
    /\ pc' = "done"
    /\ UNCHANGED <<args, melody, chosen_pitches, error, inserted>>
    /\ UNCHANGED graphvars
    /\ UNCHANGED libvars

\* service.py 108-144: the first failing check raises
GenRaise ==
    /\ pc = "validate"
    /\ Validate(args) \notin {"empty", "ok"}
    /\ pc' = "failed"
    /\ error' = Some(Validate(args))
    /\ UNCHANGED <<args, melody, chosen_pitches, inserted>>
    /\ UNCHANGED graphvars
    /\ UNCHANGED libvars

\* service.py 149-237
GenRhythm ==
    /\ pc = "validate"
    /\ Validate(args) = "ok"
    /\ melody' \in Rhythms(args)
    /\ pc' = "pitches"
    /\ UNCHANGED <<args, chosen_pitches, error, inserted>>
    /\ UNCHANGED graphvars
    /\ UNCHANGED libvars

\* service.py 244-266
GenDirectPitches ==
    /\ pc = "pitches"
    /\ ~args.alternate
    /\ ~DirectRaises(args)
    /\ chosen_pitches' \in DirectPitches(args)
    /\ pc' = "assign"
    /\ UNCHANGED <<args, melody, error, inserted>>
    /\ UNCHANGED graphvars
    /\ UNCHANGED libvars

\* service.py 250 / 260: random.choices on an empty list
GenChoicesRaise ==
    /\ pc = "pitches"
    /\ ~args.alternate
    /\ DirectRaises(args)
    /\ pc' = "failed"
    /\ error' = Some("IndexError")
    /\ UNCHANGED <<args, melody, chosen_pitches, inserted>>
    /\ UNCHANGED graphvars
    /\ UNCHANGED libvars

\* service.py 272-282
GenSeedPitches ==
    /\ pc = "pitches"
    /\ args.alternate
    /\ chosen_pitches' \in SeedPitches(args)
    /\ pc' = "insert"
    /\ UNCHANGED <<args, melody, error, inserted>>
    /\ UNCHANGED graphvars
    /\ UNCHANGED libvars

\* service.py 285-314: one pass of the outer loop, random.choice drawing the pitch
GenDraw(pitch_to_insert) ==
    /\ pc = "insert"
    /\ Len(chosen_pitches) < args.length
    /\ pitch_to_insert \in SetOf(args.pitches)
    /\ chosen_pitches' \in InsertPass(chosen_pitches, pitch_to_insert)
    /\ inserted' = Some(pitch_to_insert)
    /\ UNCHANGED <<args, pc, melody, error>>
    /\ UNCHANGED graphvars
    /\ UNCHANGED libvars

GenInsert == \E pitch_to_insert \in PitchUniverse : GenDraw(pitch_to_insert)

GenInsertDone ==
    /\ pc = "insert"
    /\ ~(Len(chosen_pitches) < args.length)
    /\ pc' = "assign"
    /\ UNCHANGED <<args, melody, chosen_pitches, error, inserted>>
    /\ UNCHANGED graphvars
    /\ UNCHANGED libvars

\* service.py 317-321
GenAssign ==
    /\ pc = "assign"
    /\ melody' = AssignPitches(melody, chosen_pitches)
    /\ pc' = "done"
    /\ UNCHANGED <<args, chosen_pitches, error, inserted>>
    /\ UNCHANGED graphvars
    /\ UNCHANGED libvars

GenNext ==
    \/ GenReturnEmpty
    \/ GenRaise
    \/ GenRhythm
    \/ GenDirectPitches
    \/ GenChoicesRaise
    \/ GenSeedPitches
    \/ GenInsert
    \/ GenInsertDone
    \/ GenAssign

GenSpec == GenInit /\ [][GenNext]_vars

\* the call runs on, and random.choice keeps drawing every pitch
GenFairness ==
    /\ WF_vars(GenInsertDone)
    /\ \A pitch_to_insert \in PitchUniverse : WF_vars(GenDraw(pitch_to_insert))

GenFairSpec == GenSpec /\ GenFairness

(***************************************************************************)
(* MelodyFormula.value, step by step (formula.py 46-72)                    *)
(***************************************************************************)
\* one call of `value`: the node, the kwargs so far, and what the call started from:
\* the node's _value and the lengths of the two logs
Frame(n) ==
    [node |-> n, kwargs |-> <<>>,
     had |-> value[n], calls |-> Len(invoked), hooks |-> Len(hooks)]

Top == stack[Len(stack)]
Callers == SubSeq(stack, 1, Len(stack) - 1)

Keys(f) == ParamOrder(MethodOf[f.node])
AllResolved(f) == Len(f.kwargs) = Len(Keys(f))
NextBinding(f) == params[f.node][Keys(f)[Len(f.kwargs) + 1]]

\* formula.py 51: `if not self._value`, read when the call starts
TakesCached(f) == f.kwargs = <<>> /\ Truthy(value[f.node])

\* `return self._value`: the melody reaches the caller's kwargs, or the owner
ReturnTo(callers, m) ==
    IF callers = <<>>
    THEN /\ stack' = <<>>
         /\ outcome' = Returned(m)
    ELSE /\ stack' = [callers EXCEPT ![Len(callers)].kwargs = Append(@, Some(m))]
         /\ outcome' = outcome

\* an exception leaves a call: it reaches the caller's comprehension, or the owner
RaiseTo(callers, msg) ==
    IF callers = <<>>
    THEN /\ stack' = <<>>
         /\ exc' = None
         /\ outcome' = Raised(msg)
    ELSE /\ stack' = callers
         /\ exc' = Some(msg)
         /\ outcome' = outcome

Call(n, kwargs, r) ==
    [node |-> n, kwargs |-> kwargs, cached |-> value[n], result |-> r]

\* the owner's last read of node n's `value` ended with n's own method raising
MethodFailedAt(n) ==
    /\ lastop.op = "value"
    /\ lastop.node = n
    /\ outcome # None
    /\ invoked # <<>>
    /\ invoked[Len(invoked)].node = n
    /\ ~invoked[Len(invoked)].result.ok

\* the owner reads node n's `value` (ui.py 109, 164, 183, 193)
Evaluate(n) ==
    /\ stack = <<>>
    /\ stack' = <<[Frame(n) EXCEPT !.calls = 0, !.hooks = 0]>>
    /\ lastop' = [op |-> "value", node |-> n, empty |-> (value[n] = None),
                  retry |-> MethodFailedAt(n)]
    /\ hooks' = <<>>
    /\ invoked' = <<>>
    /\ unwound' = <<>>
    /\ outcome' = None
    /\ UNCHANGED <<params, value, exc>>
    /\ UNCHANGED genvars
    /\ UNCHANGED libvars

\* formula.py 51, 72: a truthy _value is returned as it is
ReturnCached ==
    /\ stack # <<>>
    /\ exc = None
    /\ TakesCached(Top)
    /\ ReturnTo(Callers, value[Top.node][1])
    /\ UNCHANGED <<params, value, exc, lastop, hooks, invoked, unwound>>
    /\ UNCHANGED genvars
    /\ UNCHANGED libvars

\* formula.py 55: a binding that is no MelodyFormula passes through
ResolveLiteral ==
    /\ stack # <<>>
    /\ exc = None
    /\ ~TakesCached(Top)
    /\ ~AllResolved(Top)
    /\ NextBinding(Top).kind = "literal"
    /\ stack' = [stack EXCEPT ![Len(stack)].kwargs = Append(@, NextBinding(Top).v)]
    /\ UNCHANGED <<params, value, exc, lastop, hooks, invoked, unwound, outcome>>
    /\ UNCHANGED genvars
    /\ UNCHANGED libvars

\* formula.py 55: a MelodyFormula binding is read through its own `value`
ResolveFormula ==
    /\ stack # <<>>
    /\ exc = None
    /\ ~TakesCached(Top)
    /\ ~AllResolved(Top)
    /\ NextBinding(Top).kind = "formula"
    /\ Len(stack) < MaxDepth
    /\ stack' = Append(stack, Frame(NextBinding(Top).node))
    /\ UNCHANGED <<params, value, exc, lastop, hooks, invoked, unwound, outcome>>
    /\ UNCHANGED genvars
    /\ UNCHANGED libvars

\* the interpreter refuses one more frame: RecursionError inside the comprehension
RaiseRecursionError ==
    /\ stack # <<>>
    /\ exc = None
    /\ ~TakesCached(Top)
    /\ ~AllResolved(Top)
    /\ NextBinding(Top).kind = "formula"
    /\ Len(stack) >= MaxDepth
    /\ exc' = Some("RecursionError")
    /\ UNCHANGED <<params, value, stack, lastop, hooks, invoked, unwound, outcome>>
    /\ UNCHANGED genvars
    /\ UNCHANGED libvars

\* a slip: the value is cached and the observer is not told
StoreValue_NoHook(n, m) ==
    /\ value' = [value EXCEPT ![n] = Some(m)]
    /\ hooks' = hooks

\* formula.py 61, 68-72: the method returns; cache, on_success, return
StoreValue(n, m) ==
    /\ value' = [value EXCEPT ![n] = Some(m)]
    /\ hooks' = Append(hooks, <<"on_success", n>>)

InvokeReturns ==
    /\ stack # <<>>
    /\ exc = None
    /\ ~TakesCached(Top)
    /\ AllResolved(Top)
    /\ \E r \in service_method(MethodOf[Top.node], Top.kwargs) :
          /\ r.ok
          /\ Len(r.melody) <= MaxEvents
          /\ StoreValue(Top.node, r.melody)
          /\ invoked' = Append(invoked, Call(Top.node, Top.kwargs, r))
          /\ ReturnTo(Callers, r.melody)
    /\ UNCHANGED <<params, exc, lastop, unwound>>
    /\ UNCHANGED genvars
    /\ UNCHANGED libvars

\* a slip: the failure is propagated with no on_error
OnMethodError_NoHook(n) ==
    /\ value' = value
    /\ hooks' = hooks

\* formula.py 63-66: the method raises; on_error, raise
OnMethodError(n) ==
    /\ value' = value
    /\ hooks' = Append(hooks, <<"on_error", n>>)

InvokeRaises ==
    /\ stack # <<>>
    /\ exc = None
    /\ ~TakesCached(Top)
    /\ AllResolved(Top)
    /\ \E r \in service_method(MethodOf[Top.node], Top.kwargs) :
          /\ ~r.ok
          /\ OnMethodError(Top.node)
          /\ invoked' = Append(invoked, Call(Top.node, Top.kwargs, r))
          /\ RaiseTo(Callers, r.error)
    /\ UNCHANGED <<params, lastop, unwound>>
    /\ UNCHANGED genvars
    /\ UNCHANGED libvars

\* a slip: the `else` of the try taken as a `finally`
OnBindingError_ReportsSuccess(n) ==
    /\ value' = value
    /\ hooks' = Append(hooks, <<"on_success", n>>)

\* formula.py 54-57: the comprehension is outside the try: an exception of a
\* binding's `value` leaves this call with no hook and no assignment
OnBindingError(n) ==
    /\ value' = value
    /\ hooks' = hooks

Unwind ==
    /\ stack # <<>>
    /\ exc # None
    /\ OnBindingError(Top.node)
    /\ unwound' = Append(unwound, [node |-> Top.node, had |-> Top.had,
                                    calls |-> Top.calls, hooks |-> Top.hooks])
    /\ RaiseTo(Callers, exc[1])
    /\ UNCHANGED <<params, lastop, invoked>>
    /\ UNCHANGED genvars
    /\ UNCHANGED libvars

(***************************************************************************)
(* clear_value and update_params (formula.py 74-81)                        *)
(***************************************************************************)
\* dict.update
DictUpdate(old, new) ==
    [k \in (DOMAIN old) \cup (DOMAIN new) |->
        IF k \in DOMAIN new THEN new[k] ELSE old[k]]

\* a slip: the hook is called and the value kept
clear_value_KeepsValue(n) ==
    /\ value' = value
    /\ hooks' = <<<<"on_clear", n>>>>

\* formula.py 74-77
clear_value(n) ==
    /\ value' = [value EXCEPT ![n] = None]
    /\ hooks' = <<<<"on_clear", n>>>>

\* a slip: the value is cleared only when a binding changes
update_params_ClearsOnChange(n, new) ==
    /\ params' = [params EXCEPT ![n] = DictUpdate(@, new)]
    /\ IF DictUpdate(params[n], new) = params[n]
       THEN value' = value /\ hooks' = <<>>
       ELSE clear_value(n)

\* formula.py 79-81
update_params(n, new) ==
    /\ params' = [params EXCEPT ![n] = DictUpdate(@, new)]
    /\ clear_value(n)

\* the parameter maps the owner sends: all of a GenerateMelody node's editors at
\* once (ui.py 116-118), one input of a ConcatMelodies node (ui.py 120-126)
EditorValues(len) ==
    [pitches |-> Literal(Some(<<1, 2>>)),
     length |-> Literal(Some(len)),
     duration |-> Literal(Some(1)),
     grid_size |-> Literal(Some(1)),
     duration_mode |-> Literal(Some("Maximum")),
     note_duration |-> Literal(None),
     alternate |-> Literal(Some(FALSE)),
     use_all |-> Literal(Some(FALSE))]

InputsUsed == {"melody_1", "melody_2"}

ParamMaps(n) ==
    IF MethodOf[n] = "GenerateMelody"
    THEN {EditorValues(len) : len \in 0..2}
    ELSE {(k :> b) : k \in InputsUsed,
                     b \in {Literal(None)} \cup {Formula(m) : m \in Nodes}}

UpdateParams(n, new) ==
    /\ stack = <<>>
    /\ lastop' = [op |-> "update_params", node |-> n, new |-> new]
    /\ update_params(n, new)
    /\ invoked' = <<>>
    /\ unwound' = <<>>
    /\ outcome' = None
    /\ UNCHANGED <<stack, exc>>
    /\ UNCHANGED genvars
    /\ UNCHANGED libvars

ClearValue(n) ==
    /\ stack = <<>>
    /\ lastop' = [op |-> "clear_value", node |-> n]
    /\ clear_value(n)
    /\ invoked' = <<>>
    /\ unwound' = <<>>
    /\ outcome' = None
    /\ UNCHANGED <<params, stack, exc>>
    /\ UNCHANGED genvars
    /\ UNCHANGED libvars

\* no GenerateMelody call is being traced while the graph runs
GenIdle ==
    /\ args = None
    /\ pc = "idle"
    /\ melody = <<>>
    /\ chosen_pitches = <<>>
    /\ error = None
    /\ inserted = None

Init == GenIdle /\ GraphInit /\ LibIdle

Next ==
    \/ \E n \in Nodes : Evaluate(n)
    \/ ReturnCached
    \/ ResolveLiteral
    \/ ResolveFormula
    \/ RaiseRecursionError
    \/ InvokeReturns
    \/ InvokeRaises
    \/ Unwind
    \/ \E n \in Nodes : \E new \in ParamMaps(n) : UpdateParams(n, new)
    \/ \E n \in Nodes : ClearValue(n)

Spec == Init /\ [][Next]_vars

(***************************************************************************)
(* The graph owner that propagates invalidation: after update_params or    *)
(* clear_value on a node, every node downstream of it is cleared           *)
(* (ui.py 116-130, through the node editor's ancestor-change callback)     *)
(***************************************************************************)
\* the nodes bound to node n
Dependents(n) ==
    {m \in Nodes : \E k \in DOMAIN params[m] :
        params[m][k].kind = "formula" /\ params[m][k].node = n}

RECURSIVE DependentsClosure(_, _)
DependentsClosure(S, steps) ==
    IF steps = 0 THEN S
    ELSE DependentsClosure(S \cup UNION {Dependents(m) : m \in S}, steps - 1)

\* the nodes whose _on_ancestor_change is called when node n changes
TransitiveDependents(n) == DependentsClosure(Dependents(n), Cardinality(Nodes))

\* a slip: the callback of a node downstream leaves its value alone
InvalidateFrom_NodeOnly(n) == clear_value(n)

\* clear_value of node n, then of each node downstream (ui.py 128-130)
InvalidateFrom(n) ==
    LET downstream == TransitiveDependents(n) \ {n}
    IN /\ value' = [m \in Nodes |-> IF m \in downstream \cup {n} THEN None ELSE value[m]]
       /\ hooks' = <<<<"on_clear", n>>>>
                     \o [i \in 1..Cardinality(downstream) |->
                           <<"on_clear", SortedSeq(downstream)[i]>>]

\* ui.py 116-126, then the callbacks of the nodes downstream
OwnerUpdateParams(n, new) ==
    /\ stack = <<>>
    /\ lastop' = [op |-> "update_params", node |-> n, new |-> new]
    /\ params' = [params EXCEPT ![n] = DictUpdate(@, new)]
    /\ InvalidateFrom(n)
    /\ invoked' = <<>>
    /\ unwound' = <<>>
    /\ outcome' = None
    /\ UNCHANGED <<stack, exc>>
    /\ UNCHANGED genvars
    /\ UNCHANGED libvars

OwnerClearValue(n) ==
    /\ stack = <<>>
    /\ lastop' = [op |-> "clear_value", node |-> n]
    /\ InvalidateFrom(n)
    /\ invoked' = <<>>
    /\ unwound' = <<>>
    /\ outcome' = None
    /\ UNCHANGED <<params, stack, exc>>
    /\ UNCHANGED genvars
    /\ UNCHANGED libvars

OwnerNext ==
    \/ \E n \in Nodes : Evaluate(n)
    \/ ReturnCached
    \/ ResolveLiteral
    \/ ResolveFormula
    \/ RaiseRecursionError
    \/ InvokeReturns
    \/ InvokeRaises
    \/ Unwind
    \/ \E n \in Nodes : \E new \in ParamMaps(n) : OwnerUpdateParams(n, new)
    \/ \E n \in Nodes : OwnerClearValue(n)

OwnerSpec == Init /\ [][OwnerNext]_vars

(***************************************************************************)
(* One call of an operation of the library on Melody objects               *)
(***************************************************************************)
\* the most events a melody given to a one-melody operation has
MaxInput == 4
\* the longest Rest of a given melody
MaxRest == 1

\* the distinct pitches of a given melody
InputPitches == 2

InputEvents ==
    {Note(p, d) : p \in 1..InputPitches, d \in 1..MaxGrid} \cup {Rest(d) : d \in 0..MaxRest}

SeqsUpTo(S, n) == UNION {[1..k -> S] : k \in 0..n}

\* the melodies given to the one-melody operations, and to the others
InputMelodies == SeqsUpTo(InputEvents, MaxInput)
ShortMelodies == SeqsUpTo(InputEvents, MaxEvents)

\* amount_mode with amount: the amount is read in the Fixed mode only
Amounts ==
    {<<mode, None>> : mode \in AmountModes}
      \cup {<<"Fixed", Some(k)>> : k \in (-1)..(MaxInput + 1)}

\* duration_mode with note_duration, as for GenerateMelody
Rhythmics ==
    {<<mode, None>> : mode \in DurationModes}
      \cup {<<"Fixed", Some(d)>> : d \in 1..MaxGrid}

\* the calls traced: the operation, the Melody objects given, the other arguments
LibInit ==
    /\ GenIdle
    /\ GraphInit
    /\ \/ \E m \in InputMelodies :
            call = [op |-> "normalize", objects |-> <<m>>]
       \/ \E m \in InputMelodies, k \in (-1)..(MaxInput + 1) :
            call = [op |-> "crop_length", objects |-> <<m>>, limit |-> k]
       \/ \E op \in {"SwapPitch", "ShiftPitch", "ShufflePitch", "RemapPitch"},
             m \in InputMelodies, am \in Amounts :
            call = [op |-> op, objects |-> <<m>>, amount_mode |-> am[1], amount |-> am[2]]
       \/ \E m \in SeqsUpTo(InputEvents, MaxLength), am \in Amounts,
             ps \in {None, Some(<<>>), Some(<<1>>), Some(SortedSeq(PitchUniverse))} :
            call = [op |-> "ChangePitch", objects |-> <<m>>, amount_mode |-> am[1],
                    amount |-> am[2], pitches |-> ps]
       \/ \E m \in InputMelodies :
            call = [op |-> "RevertPitch", objects |-> <<m>>]
       \/ \E m \in ShortMelodies, d \in {None} \cup {Some(k) : k \in 0..MaxDuration},
             g \in {None} \cup {Some(k) : k \in 0..MaxGrid}, rh \in Rhythmics :
            call = [op |-> "ChangeRhythm", objects |-> <<m>>, duration |-> d,
                    grid_size |-> g, duration_mode |-> rh[1], note_duration |-> rh[2]]
       \/ \E a \in ShortMelodies, b \in ShortMelodies, slots \in [1..4 -> 0..2] :
            call = [op |-> "ConcatMelodies", objects |-> <<a, b>>, slots |-> slots]
       \/ \E a \in SeqsUpTo(InputEvents, MaxLength), b \in ShortMelodies,
             ids \in {<<1, 2>>, <<1, 1>>}, crop \in BOOLEAN :
            call = [op |-> "SubstitutePitch", objects |-> <<a, b>>, rhythm |-> ids[1],
                    sequence |-> ids[2], crop_rhythm |-> crop]
       \/ \E a \in ShortMelodies, b \in ShortMelodies, ids \in {<<1, 2>>, <<1, 1>>} :
            call = [op |-> "SubstituteRhythm", objects |-> <<a, b>>, rhythm |-> ids[1],
                    sequence |-> ids[2]]
    /\ heap = call.objects
    /\ result = None

\* the call ends with one of the effects
Ends(effects) ==
    /\ result = None
    /\ \E e \in effects :
         /\ heap' = e.heap
         /\ result' = Some(e.result)
    /\ UNCHANGED call
    /\ UNCHANGED genvars
    /\ UNCHANGED graphvars

\* Melody.normalize and Melody.crop_length change the object they are called on
LibNormalize ==
    /\ call.op = "normalize"
    /\ Ends({Effect([heap EXCEPT ![1] = normalize(@)], Ref(1))})

LibCropLength ==
    /\ call.op = "crop_length"
    /\ Ends({Effect([heap EXCEPT ![1] = crop_length(@, call.limit)], Ref(1))})

LibChangePitch ==
    /\ call.op = "ChangePitch"
    /\ Ends(ChangePitchOn(heap, 1, call.amount_mode, call.amount, call.pitches))

LibSwapPitch ==
    /\ call.op = "SwapPitch"
    /\ Ends(SwapPitchOn(heap, 1, call.amount_mode, call.amount))

LibShiftPitch ==
    /\ call.op = "ShiftPitch"
    /\ Ends(ShiftPitchOn(heap, 1, call.amount_mode, call.amount))

LibShufflePitch ==
    /\ call.op = "ShufflePitch"
    /\ Ends(ShufflePitchOn(heap, 1, call.amount_mode, call.amount))

LibRemapPitch ==
    /\ call.op = "RemapPitch"
    /\ Ends(RemapPitchOn(heap, 1, call.amount_mode, call.amount))

LibRevertPitch ==
    /\ call.op = "RevertPitch"
    /\ Ends(RevertPitchOn(heap, 1))

LibChangeRhythm ==
    /\ call.op = "ChangeRhythm"
    /\ Ends(ChangeRhythmOn(heap, 1, call.duration, call.grid_size,
                           call.duration_mode, call.note_duration))

LibConcatMelodies ==
    /\ call.op = "ConcatMelodies"
    /\ Ends(ConcatMelodiesOn(heap, call.slots))

LibSubstitutePitch ==
    /\ call.op = "SubstitutePitch"
    /\ Ends(SubstitutePitchOn(heap, call.rhythm, call.sequence, call.crop_rhythm))

LibSubstituteRhythm ==
    /\ call.op = "SubstituteRhythm"
    /\ Ends(SubstituteRhythmOn(heap, call.sequence, call.rhythm))

LibNext ==
    \/ LibNormalize
    \/ LibCropLength
    \/ LibChangePitch
    \/ LibSwapPitch
    \/ LibShiftPitch
    \/ LibShufflePitch
    \/ LibRemapPitch
    \/ LibRevertPitch
    \/ LibChangeRhythm
    \/ LibConcatMelodies
    \/ LibSubstitutePitch
    \/ LibSubstituteRhythm

LibSpec == LibInit /\ [][LibNext]_vars

(***************************************************************************)
(* Properties of GenerateMelody, checked under GenSpec                     *)
(***************************************************************************)
EventsOnGrid(m, grid_size) ==
    \A i \in 1..Len(m) : m[i].dur > 0 /\ Divides(grid_size, m[i].dur)

\* C8: every melody GenerateMelody returns for a validated input with length > 0,
\* in each of the four duration modes, has exactly `length` Notes, event durations
\* that sum to `duration`, and only events (Notes and Rests) whose duration is a
\* positive whole multiple of grid_size.
C8_GeneratedShape ==
    (pc = "done" /\ args.length > 0) =>
        /\ Validate(args) = "ok"
        /\ length(melody) = args.length
        /\ SumDur(melody) = args.duration
        /\ EventsOnGrid(melody, args.grid_size)

C8_Witness ==
    /\ pc = "done"
    /\ args.duration_mode = "Fixed"
    /\ args.length = 2
    /\ args.grid_size = 1
    /\ args.note_duration = Some(1)
    /\ args.duration = 4
    /\ \E i \in 1..Len(melody) : IsRest(melody[i]) /\ melody[i].dur = 2

NoEqualNeighbours(seq) ==
    \A i \in 1..(Len(seq) - 1) : seq[i] # seq[i + 1]

PitchesOf(m) == [i \in 1..length(m) |-> notes(m)[i].pitch]

\* C9: with alternate on and at least 2 distinct pitches, no two neighbours of
\* chosen_pitches are equal, before the insertion loop, after every pass of it and
\* at its end, with and without use_all, and the melody returned has no two
\* consecutive Notes of equal pitch.
C9_AlternateNeverRepeats ==
    (args.alternate /\ Cardinality(SetOf(args.pitches)) >= 2) =>
        /\ pc \in {"insert", "assign", "done"} => NoEqualNeighbours(chosen_pitches)
        /\ (pc = "done" /\ args.length > 0) => NoEqualNeighbours(PitchesOf(melody))

C9_Witness ==
    /\ pc = "done"
    /\ args.alternate
    /\ ~args.use_all
    /\ args.length = 3
    /\ PitchesOf(melody) = <<1, 2, 1>>

\* the preconditions GenerateMelody lists after length > 0, in the listed order
C10_NoteDuration(a) == IF a.note_duration = None THEN 0 ELSE a.note_duration[1]

C10_Preconditions(a) ==
    <<[holds |-> a.duration >= a.grid_size,
       message |-> "Duration must be greater than grid_size"],
      [holds |-> (a.duration \div a.grid_size) * a.grid_size = a.duration,
       message |-> "Duration is not evenly divisible by grid_size"],
      [holds |-> a.duration \div a.grid_size >= a.length,
       message |-> "Too many notes for given duration and grid_size"],
      [holds |-> a.duration_mode = "Fixed" => C10_NoteDuration(a) # 0,
       message |-> "Note length not set"],
      [holds |-> a.duration_mode = "Fixed" =>
                    C10_NoteDuration(a) * a.length <= a.duration,
       message |-> "Too many notes for given durations"],
      [holds |-> a.duration_mode = "Fixed" => C10_NoteDuration(a) >= a.grid_size,
       message |-> "Note duration must be greater than grid_size"],
      [holds |-> a.duration_mode = "Fixed" =>
                    (C10_NoteDuration(a) \div a.grid_size) * a.grid_size
                        = C10_NoteDuration(a),
       message |-> "Note duration is not evenly divisible by grid_size"],
      [holds |-> a.alternate => Cardinality(SetOf(a.pitches)) >= 2,
       message |-> "Too few pitches to alternate"],
      [holds |-> a.use_all => Cardinality(SetOf(a.pitches)) <= a.length,
       message |-> "Too short length to use all notes"]>>

C10_Violated(a) ==
    {i \in DOMAIN C10_Preconditions(a) : ~C10_Preconditions(a)[i].holds}

C10_FirstViolated(a) ==
    CHOOSE i \in C10_Violated(a) : \A j \in C10_Violated(a) : i <= j

\* C10: GenerateMelody returns an empty melody for length <= 0 whatever the other
\* arguments are, otherwise fails with the failure of the first violated
\* precondition in the listed order, and does not fail when none is violated
\* (a note_duration the code takes for unset is None or 0).
C10_ValidationOrder ==
    pc \in {"done", "failed"} =>
        IF args.length <= 0 THEN pc = "done" /\ melody = <<>>
        ELSE IF C10_Violated(args) # {}
             THEN /\ pc = "failed"
                  /\ error = Some(C10_Preconditions(args)[C10_FirstViolated(args)].message)
             ELSE pc = "done"

\* the part of C10 the code keeps: whenever a precondition is violated, the call
\* fails with the first violated one, and length <= 0 returns the empty melody
C10_FailuresInOrder ==
    pc \in {"done", "failed"} =>
        IF args.length <= 0 THEN pc = "done" /\ melody = <<>>
        ELSE C10_Violated(args) # {} =>
                /\ pc = "failed"
                /\ error = Some(C10_Preconditions(args)[C10_FirstViolated(args)].message)

(***************************************************************************)
(* Properties of the MelodyFormula graph, checked under Spec               *)
(***************************************************************************)
\* the owner's read of `value` is over
RequestDone == lastop.op = "value" /\ stack = <<>>

\* the last service method call of the request raised
MethodRaised == invoked # <<>> /\ ~invoked[Len(invoked)].result.ok

\* the kwargs node n's bindings resolve to now
BoundValue(b) == IF b.kind = "literal" THEN b.v ELSE value[b.node]

KwargsOf(n) ==
    [j \in 1..Len(ParamOrder(MethodOf[n])) |->
        BoundValue(params[n][ParamOrder(MethodOf[n])[j]])]

\* C1: a node whose method returned a melody (an empty one included) keeps it
\* until update_params or clear_value: no later read of `value` calls the method of
\* a node that holds a melody, and a read of such a node returns that melody.
C1_CachedMelodyIsReturned ==
    /\ \A i \in DOMAIN invoked : invoked[i].cached = None
    /\ (RequestDone /\ ~lastop.empty) => outcome = Returned(value[lastop.node][1])

UpdateStep == stack = <<>> /\ stack' = <<>> /\ lastop'.op = "update_params"

C2_Merged ==
    LET n == lastop'.node
        new == lastop'.new
    IN /\ DOMAIN params'[n] = DOMAIN params[n]
       /\ \A k \in DOMAIN params[n] :
             params'[n][k] = IF k \in DOMAIN new THEN new[k] ELSE params[n][k]
       /\ \A m \in Nodes \ {n} : params'[m] = params[m] /\ value'[m] = value[m]
       /\ value'[n] = None
       /\ hooks' = <<<<"on_clear", n>>>>

C2_Recomputed ==
    (RequestDone /\ lastop.empty) =>
        LET n == lastop.node IN
        \/ /\ invoked # <<>>
           /\ invoked[Len(invoked)].node = n
           /\ invoked[Len(invoked)].kwargs = KwargsOf(n)
           /\ IF invoked[Len(invoked)].result.ok
              THEN /\ outcome = Returned(invoked[Len(invoked)].result.melody)
                   /\ value[n] = Some(invoked[Len(invoked)].result.melody)
              ELSE outcome = Raised(invoked[Len(invoked)].result.error)
        \/ /\ unwound # <<>>
           /\ unwound[Len(unwound)].node = n
           /\ ~outcome.ok

\* C2: update_params merges the given entries into the node's params (the others
\* keep their binding, the other nodes are untouched), leaves _value None and calls
\* on_clear, also when every new value equals the old one; a read of the node's
\* `value` that starts from there never answers from the cache: it resolves the
\* merged bindings and calls the method with them (and returns what that call
\* returns), unless resolving a binding raises first.
C2_UpdateInvalidates ==
    /\ [][UpdateStep => C2_Merged]_vars
    /\ []C2_Recomputed

C2_Witness ==
    /\ RequestDone
    /\ lastop.empty
    /\ lastop.node = 3
    /\ params[3]["melody_1"] = Formula(2)
    /\ params[3]["melody_2"] = Formula(1)
    /\ params[2]["melody_1"] = Formula(1)
    /\ outcome.ok
    /\ Len(outcome.melody) = 2

\* C3: when the method of a node with no cached value raises, on_error is called
\* for the node (last of all hooks), on_success is not, the node's _value stays
\* None, the exception goes up to the caller and reaches the owner as it is, and
\* the owner's next read of the node calls the method again.
C3_FailureNotMemoized ==
    /\ \A i \in DOMAIN invoked : ~invoked[i].result.ok =>
          /\ i = Len(invoked)
          /\ hooks # <<>>
          /\ hooks[Len(hooks)] = <<"on_error", invoked[i].node>>
          /\ \A h \in DOMAIN hooks : hooks[h] # <<"on_success", invoked[i].node>>
          /\ invoked[i].cached = None
          /\ value[invoked[i].node] = None
          /\ IF stack = <<>>
             THEN outcome = Raised(invoked[i].result.error)
             ELSE exc = Some(invoked[i].result.error)
    /\ (RequestDone /\ lastop.retry) =>
          \E i \in DOMAIN invoked : invoked[i].node = lastop.node

C3_Witness ==
    /\ RequestDone
    /\ lastop.retry
    /\ MethodRaised
    /\ invoked[Len(invoked)].node = lastop.node
    /\ outcome = Raised("Too many notes for given duration and grid_size")

\* the exception of the request: the one a method raised, or the interpreter's
OriginError ==
    IF MethodRaised THEN invoked[Len(invoked)].result.error ELSE "RecursionError"

\* C4: when reading a MelodyFormula binding of node N raises, the call of N's
\* `value` ends with that same exception: between the start of the call and its end
\* N's method is not called, on_success is not called for N, and N's _value is what
\* it was, a value `value` does not return (nothing is cached).
C4_BindingFailurePropagates ==
    \A j \in DOMAIN unwound :
        LET u == unwound[j] IN
        /\ \A i \in (u.calls + 1)..Len(invoked) : invoked[i].node # u.node
        /\ \A h \in (u.hooks + 1)..Len(hooks) : hooks[h] # <<"on_success", u.node>>
        /\ value[u.node] = u.had
        /\ ~Truthy(u.had)
        /\ IF stack = <<>>
           THEN outcome = Raised(OriginError)
           ELSE exc = Some(OriginError)

C4_Witness ==
    /\ RequestDone
    /\ MethodRaised
    /\ Len(unwound) = 2
    /\ unwound[2].node = 3
    /\ unwound[1].node = 2
    /\ invoked[Len(invoked)].node = 1
    /\ outcome = Raised("TypeError")

\* C5: whenever a read of `value` ends in an exception, raised by the node's own
\* method or by the read of one of its bindings, on_error is called for that node:
\* every node the exception of a method passes through has its on_error called.
C5_EveryFailingNodeReports ==
    MethodRaised =>
        /\ \E h \in DOMAIN hooks : hooks[h] = <<"on_error", invoked[Len(invoked)].node>>
        /\ \A j \in DOMAIN unwound :
              \E h \in DOMAIN hooks : hooks[h] = <<"on_error", unwound[j].node>>

ClearStep == stack = <<>> /\ stack' = <<>> /\ lastop'.op = "clear_value"

C6_Cleared ==
    LET n == lastop'.node IN
    /\ value'[n] = None
    /\ \A m \in Nodes \ {n} : value'[m] = value[m]
    /\ params' = params
    /\ hooks' = <<<<"on_clear", n>>>>
    /\ (lastop.op = "clear_value" /\ lastop.node = n) =>
          (value' = value /\ params' = params)

\* C6: clear_value leaves the node's _value None whatever it was, changes no
\* binding of any node and no other node's _value, and calls on_clear on every
\* call; a second call in a row leaves the node's state as the first left it.
C6_ClearValueIdempotent ==
    /\ [][ClearStep => C6_Cleared]_vars
    /\ [](lastop.op = "clear_value" =>
            /\ value[lastop.node] = None
            /\ hooks = <<<<"on_clear", lastop.node>>>>)

C6_Witness ==
    /\ lastop.op = "clear_value"
    /\ lastop.node = 3
    /\ stack = <<>>
    /\ params[3]["melody_1"] = Formula(1)
    /\ value[3] = None
    /\ Truthy(value[1])

\* the nodes a node is bound to, and whether the bindings close a cycle
Dependencies(n) ==
    {params[n][k].node : k \in {x \in DOMAIN params[n] : params[n][x].kind = "formula"}}

RECURSIVE Descendants(_, _)
Descendants(S, steps) ==
    IF steps = 0 THEN S
    ELSE Descendants(S \cup UNION {Dependencies(m) : m \in S}, steps - 1)

Acyclic ==
    \A n \in Nodes : n \notin Descendants(Dependencies(n), Cardinality(Nodes))

\* C7: during one read of `value` on an acyclic graph, the method of a node that
\* holds a melody is never called, and no node's method is called twice, also when
\* the node is bound to several parameters or reached along several paths.
C7_EachMethodAtMostOnce ==
    Acyclic =>
        /\ \A i \in DOMAIN invoked : invoked[i].cached = None
        /\ \A i, j \in DOMAIN invoked : invoked[i].node = invoked[j].node => i = j

(***************************************************************************)
(* Properties of the library operations, checked under LibSpec             *)
(***************************************************************************)
\* the call traced has ended
Ended(op) == call.op = op /\ result # None

\* the melody the call returned
ResultMelody == heap[result[1].ref]

\* the Rests at the head of a sequence of events
RECURSIVE RestRun(_)
RestRun(m) ==
    IF m = <<>> \/ IsNote(Head(m)) THEN <<>> ELSE <<Head(m)>> \o RestRun(Tail(m))

\* every maximal run of Rests replaced by one Rest of the run's total duration,
\* and by nothing when that total is zero
RECURSIVE MergedRests(_)
MergedRests(m) ==
    IF m = <<>> THEN <<>>
    ELSE IF IsNote(Head(m)) THEN <<Head(m)>> \o MergedRests(Tail(m))
    ELSE LET run == RestRun(m)
         IN (IF SumDur(run) = 0 THEN <<>> ELSE <<Rest(SumDur(run))>>)
              \o MergedRests(SubSeq(m, Len(run) + 1, Len(m)))

NoRestPair(m) == \A i \in 1..(Len(m) - 1) : ~(IsRest(m[i]) /\ IsRest(m[i + 1]))
NoNullRest(m) == \A i \in 1..Len(m) : ~(IsRest(m[i]) /\ m[i].dur = 0)

\* C11: normalize leaves the events with the zero-duration Rests removed and every
\* maximal run of Rests replaced by one Rest of the run's total duration; the Notes,
\* their order and the total duration are unchanged, no two Rests are adjacent, no
\* Rest has zero duration, and normalizing again changes nothing.
C11_NormalizeMergesRests ==
    Ended("normalize") =>
        LET m == call.objects[1]
        IN /\ heap[1] = MergedRests(m)
           /\ notes(heap[1]) = notes(m)
           /\ SumDur(heap[1]) = SumDur(m)
           /\ NoRestPair(heap[1])
           /\ NoNullRest(heap[1])
           /\ normalize(heap[1]) = heap[1]

C11_Witness ==
    /\ Ended("normalize")
    /\ call.objects[1] = <<Rest(1), Rest(0), Rest(1), Note(1, 1)>>
    /\ heap[1] = <<Rest(2), Note(1, 1)>>

Min(x, y) == IF x < y THEN x ELSE y

\* C12: crop_length(k) with k > 0 leaves the prefix of the events that ends at the
\* k-th Note, or all the events when there are fewer than k Notes, so min(k, length)
\* Notes remain, every Rest before the k-th Note is kept and everything after it is
\* dropped; with k <= 0 no event remains.
C12_CropKeepsPrefix ==
    Ended("crop_length") =>
        LET m == call.objects[1]
            k == call.limit
        IN IF k <= 0 THEN heap[1] = <<>>
           ELSE /\ length(heap[1]) = Min(k, length(m))
                /\ \E j \in 0..Len(m) :
                     /\ heap[1] = SubSeq(m, 1, j)
                     /\ IF length(m) < k THEN j = Len(m)
                        ELSE IsNote(m[j]) /\ length(SubSeq(m, 1, j)) = k

C12_Witness ==
    /\ Ended("crop_length")
    /\ call.limit = 1
    /\ call.objects[1] = <<Rest(1), Note(1, 1), Rest(1), Note(2, 1)>>
    /\ heap[1] = <<Rest(1), Note(1, 1)>>

\* the operations of MelodyService that take melodies
ServiceOps ==
    {"ChangePitch", "SwapPitch", "ShiftPitch", "ShufflePitch", "RemapPitch",
     "RevertPitch", "ChangeRhythm", "ConcatMelodies", "SubstitutePitch",
     "SubstituteRhythm"}

\* C13: when an operation of the service has returned or failed, every Melody
\* object it was given has the events it had when the call was made.
C13_InputsUnchanged ==
    (call.op \in ServiceOps /\ result # None) =>
        \A id \in 1..Len(call.objects) : heap[id] = call.objects[id]

C13_Witness ==
    /\ Ended("RevertPitch")
    /\ call.objects[1] = <<Note(1, 1), Rest(1), Note(2, 1)>>
    /\ heap[1] = call.objects[1]
    /\ result[1].ok
    /\ result[1].ref # 1
    /\ ResultMelody = <<Note(2, 1), Rest(1), Note(1, 1)>>

\* the events of the melodies in slots i..4, in slot order, an unset slot giving none
RECURSIVE SlotEvents(_, _)
SlotEvents(slots, i) ==
    IF i > Len(slots) THEN <<>>
    ELSE (IF slots[i] = 0 THEN <<>> ELSE call.objects[slots[i]]) \o SlotEvents(slots, i + 1)

SuppliedSlots == {i \in 1..4 : call.slots[i] # 0}

RECURSIVE SumOver(_, _)
SumOver(S, f) ==
    IF S = {} THEN 0
    ELSE LET x == CHOOSE x \in S : TRUE IN f[x] + SumOver(S \ {x}, f)

\* C14: ConcatMelodies returns the events of the supplied melodies joined in slot
\* order 1..4, unset slots skipped wherever they are: an empty melody when none is
\* supplied, a melody equal to m when only m is supplied, and the number of Notes and
\* the total duration are the sums over the supplied melodies.
C14_ConcatInSlotOrder ==
    Ended("ConcatMelodies") =>
        /\ result[1].ok
        /\ ResultMelody = SlotEvents(call.slots, 1)
        /\ SuppliedSlots = {} => ResultMelody = <<>>
        /\ \A i \in SuppliedSlots :
             SuppliedSlots = {i} => ResultMelody = call.objects[call.slots[i]]
        /\ length(ResultMelody) =
             SumOver(SuppliedSlots, [i \in 1..4 |-> length(call.objects[call.slots[i]])])
        /\ SumDur(ResultMelody) =
             SumOver(SuppliedSlots, [i \in 1..4 |-> SumDur(call.objects[call.slots[i]])])

C14_Witness ==
    /\ Ended("ConcatMelodies")
    /\ call.objects = << <<Note(1, 1)>>, <<Rest(1), Note(2, 2)>> >>
    /\ call.slots = <<0, 2, 0, 1>>
    /\ ResultMelody = <<Rest(1), Note(2, 2), Note(1, 1)>>

\* C15: on a melody with fewer than 2 Notes, ShiftPitch, ShufflePitch and RemapPitch
\* do not fail and return a melody equal to the one given, in every amount_mode.
C15_FewNotesNoOp ==
    (/\ call.op \in {"ShiftPitch", "ShufflePitch", "RemapPitch"}
     /\ result # None
     /\ length(call.objects[1]) < 2) =>
        /\ result[1].ok
        /\ ResultMelody = call.objects[1]

(***************************************************************************)
(* More properties of GenerateMelody, checked under GenSpec                *)
(***************************************************************************)
\* C16: every Note of a generated melody carries a pitch of the given pitch set,
\* under each of the four {alternate, use_all} policies, and with use_all every
\* distinct given pitch is carried by at least one Note, with alternate and without.
C16_PitchesFromSet ==
    (pc = "done" /\ args.length > 0) =>
        /\ SetOf(PitchesOf(melody)) \subseteq SetOf(args.pitches)
        /\ args.use_all => SetOf(args.pitches) \subseteq SetOf(PitchesOf(melody))

C16_Witness ==
    /\ pc = "done"
    /\ args.use_all
    /\ args.alternate
    /\ SetOf(args.pitches) = {1, 2, 3}
    /\ args.length = 3
    /\ PitchesOf(melody) = <<3, 1, 2>>

NoteDurationsAre(m, d) == \A i \in 1..Len(m) : IsNote(m[i]) => m[i].dur = d

\* C17: in a generated melody every Note lasts grid_size in the Minimum mode and
\* note_duration in the Fixed mode; in the Maximum mode every Note fills its gap, so
\* only the first event can be a Rest; in the Random mode every Note lasts at least
\* one slot and is followed by at most one Rest.
C17_RhythmShape ==
    (pc = "done" /\ args.length > 0) =>
        /\ args.duration_mode = "Minimum" => NoteDurationsAre(melody, args.grid_size)
        /\ args.duration_mode = "Fixed" => NoteDurationsAre(melody, args.note_duration[1])
        /\ args.duration_mode = "Maximum" => \A i \in 2..Len(melody) : IsNote(melody[i])
        /\ args.duration_mode = "Random" =>
             /\ NoRestPair(melody)
             /\ \A i \in 1..Len(melody) : IsNote(melody[i]) => melody[i].dur >= args.grid_size

C17_Witness ==
    /\ pc = "done"
    /\ args.duration_mode = "Random"
    /\ args.grid_size = 1
    /\ Len(melody) = 3
    /\ melody[1] = Rest(1)
    /\ IsNote(melody[2]) /\ melody[2].dur = 2
    /\ melody[3] = Rest(1)

(***************************************************************************)
(* More properties of the formula graph, checked under Spec                *)
(***************************************************************************)
\* the nodes without a value that a node without a value is bound to
EmptyDependencies(n) == {d \in Dependencies(n) : value[d] = None}

RECURSIVE EmptyDescendants(_, _)
EmptyDescendants(S, steps) ==
    IF steps = 0 THEN S
    ELSE EmptyDescendants(S \cup UNION {EmptyDependencies(m) : m \in S}, steps - 1)

\* n lies on a cycle of nodes that hold no value
OnEmptyCycle(n) ==
    /\ value[n] = None
    /\ n \in EmptyDescendants(EmptyDependencies(n), Cardinality(Nodes))

\* on an acyclic graph the calls of `value` nest no deeper than there are nodes
C18_BoundedDepth ==
    Acyclic => Len(stack) <= Cardinality(Nodes) /\ exc # Some("RecursionError")

\* update_params stores whatever binding it is given, one closing a cycle included
C18_AcceptsAnyBinding ==
    lastop.op = "update_params" =>
        \A k \in DOMAIN lastop.new : params[lastop.node][k] = lastop.new[k]

\* a read of a node on a cycle of nodes without a value never ends with a melody
C18_CycleYieldsNothing ==
    (RequestDone /\ OnEmptyCycle(lastop.node)) => ~outcome.ok

\* C18: on an acyclic graph a read of `value` ends, with a melody or an exception,
\* after calling the method of each node at most once; update_params accepts a
\* binding that closes a cycle, a node bound to itself included; and a read of a
\* node on a cycle of nodes without a value never produces a melody.
C18_TerminatesWhenAcyclic ==
    /\ C18_BoundedDepth
    /\ Acyclic => \A i, j \in DOMAIN invoked : invoked[i].node = invoked[j].node => i = j
    /\ C18_AcceptsAnyBinding
    /\ C18_CycleYieldsNothing

(***************************************************************************)
(* Properties of the pitch transforms, checked under LibSpec               *)
(***************************************************************************)
\* the same kinds and durations, event by event
SameRhythm(r, m) ==
    /\ Len(r) = Len(m)
    /\ \A i \in 1..Len(m) : r[i].kind = m[i].kind /\ r[i].dur = m[i].dur

\* the same pitches, each as many times
SamePitchCounts(ps, qs) ==
    \A p \in SetOf(ps) \cup SetOf(qs) :
        Cardinality({i \in 1..Len(ps) : ps[i] = p}) = Cardinality({i \in 1..Len(qs) : qs[i] = p})

\* the exchanges of Note positions made of `amount` disjoint pairs
PairExchanges(n, amount) ==
    {f \in [1..n -> 1..n] :
        /\ \A i \in 1..n : f[f[i]] = i
        /\ Cardinality({i \in 1..n : f[i] # i}) = 2 * amount}

\* the amounts the mode allows SwapPitch on n Notes
SwapAmounts(n) ==
    CASE call.amount_mode = "Minimum" -> {1}
      [] call.amount_mode = "Maximum" -> {n \div 2}
      [] call.amount_mode = "Random" -> 1..(n \div 2)
      [] OTHER -> IF call.amount = None THEN {} ELSE {call.amount[1]}

\* C19: SwapPitch on a melody with at least 2 Notes takes amount 1 (Minimum),
\* length // 2 (Maximum), a value in [1, length // 2] (Random) or the given value
\* (Fixed) and exchanges the pitches within `amount` disjoint pairs of Notes: the
\* pitches are the same as many times, kinds and durations stay, Notes outside the
\* pairs keep their pitch. It fails with fewer than 2 Notes, with a Fixed amount
\* unset, and when 2 * amount exceeds the number of Notes.
C19_SwapInDisjointPairs ==
    Ended("SwapPitch") =>
        LET m == call.objects[1]
            n == length(m)
        IN /\ n < 2 => ~result[1].ok
           /\ (call.amount_mode = "Fixed" /\ AmountUnset(call.amount)) => ~result[1].ok
           /\ \A a \in SwapAmounts(n) : 2 * a > n => ~result[1].ok
           /\ (n >= 2 /\ \E a \in SwapAmounts(n) : a >= 1 /\ 2 * a <= n) => result[1].ok
           /\ result[1].ok =>
                /\ n >= 2
                /\ SameRhythm(ResultMelody, m)
                /\ SamePitchCounts(Pitches(ResultMelody), Pitches(m))
                /\ \E a \in SwapAmounts(n) : \E f \in PairExchanges(n, a) :
                     \A i \in 1..n : Pitches(ResultMelody)[i] = Pitches(m)[f[i]]

C19_Witness ==
    /\ Ended("SwapPitch")
    /\ call.amount_mode = "Maximum"
    /\ call.objects[1] = <<Note(1, 1), Note(2, 1), Note(1, 2), Note(2, 2)>>
    /\ ResultMelody = <<Note(2, 1), Note(1, 1), Note(2, 2), Note(1, 2)>>

\* the amounts the mode allows ShiftPitch on n Notes
ShiftAmounts(n) ==
    CASE call.amount_mode = "Minimum" -> {1}
      [] call.amount_mode = "Maximum" -> {n - 1}
      [] call.amount_mode = "Random" -> 1..(n - 1)
      [] OTHER -> IF AmountUnset(call.amount) THEN {} ELSE {call.amount[1]}

\* the pitches of ps moved round by a: position i takes the pitch of (i + a) mod n
RotatedBy(ps, a) == [i \in 1..Len(ps) |-> ps[((i - 1 + a) % Len(ps)) + 1]]

\* C20: ShiftPitch on a melody with n >= 2 Notes and amount a (1 for Minimum, n - 1
\* for Maximum, a value in [1, n - 1] for Random, the given value for Fixed) returns
\* the melody with the pitches rotated by a: the i-th Note carries the pitch of
\* input Note (i + a) mod n, and kinds, durations and order are those of the input.
C20_ShiftRotates ==
    (Ended("ShiftPitch") /\ length(call.objects[1]) >= 2
       /\ ShiftAmounts(length(call.objects[1])) # {}) =>
        LET m == call.objects[1]
        IN /\ result[1].ok
           /\ SameRhythm(ResultMelody, m)
           /\ \E a \in ShiftAmounts(length(m)) :
                Pitches(ResultMelody) = RotatedBy(Pitches(m), a)

\* the amounts the mode allows ShufflePitch and RemapPitch on n Notes
ShuffleAmounts(n) ==
    CASE call.amount_mode = "Minimum" -> {2}
      [] call.amount_mode = "Maximum" -> {n}
      [] call.amount_mode = "Random" -> 2..n
      [] OTHER -> IF AmountUnset(call.amount) THEN {} ELSE {call.amount[1]}

\* qs is ps with the pitches at the positions of chosen permuted among those positions
PermutedWithin(ps, qs, chosen) ==
    /\ Len(qs) = Len(ps)
    /\ \A i \in (1..Len(ps)) \ chosen : qs[i] = ps[i]
    /\ \A p \in SetOf(ps) :
         Cardinality({i \in chosen : qs[i] = p}) = Cardinality({i \in chosen : ps[i] = p})

\* the sets of a of the n Note positions
PositionSets(n, a) == {S \in SUBSET (1..n) : Cardinality(S) = a}

\* the Fixed amount of the call lies outside lo..hi
FixedOutside(lo, hi) ==
    /\ call.amount_mode = "Fixed"
    /\ call.amount # None
    /\ call.amount[1] \notin lo..hi

\* a returned ShiftPitch applied an amount of [1, n - 1]; a returned ShufflePitch
\* one of [2, n]
AppliedWithinBounds ==
    LET m == call.objects[1]
        n == length(m)
    IN /\ (Ended("ShiftPitch") /\ n >= 2 /\ result[1].ok) =>
            \E a \in ShiftAmounts(n) \cap (1..(n - 1)) :
                Pitches(ResultMelody) = RotatedBy(Pitches(m), a)
       /\ (Ended("ShufflePitch") /\ n >= 2 /\ result[1].ok) =>
            \E a \in ShuffleAmounts(n) \cap (2..n) : \E S \in PositionSets(n, a) :
                PermutedWithin(Pitches(m), Pitches(ResultMelody), S)

\* in the modes other than Fixed the call on at least 2 Notes returns, with an amount
\* within the bounds applied
C21_ModeAmountsWithinBounds ==
    ((Ended("ShiftPitch") \/ Ended("ShufflePitch"))
       /\ call.amount_mode # "Fixed" /\ length(call.objects[1]) >= 2) =>
        /\ AppliedWithinBounds
        /\ result[1].ok

\* C21: on a melody with n >= 2 Notes the amount ShiftPitch applies lies in
\* [1, n - 1] and the amount ShufflePitch applies lies in [2, n], in every mode; a
\* Fixed amount outside these bounds makes the call fail and is not applied.
C21_AmountWithinBounds ==
    LET n == length(call.objects[1])
    IN /\ AppliedWithinBounds
       /\ (Ended("ShiftPitch") /\ n >= 2 /\ FixedOutside(1, n - 1)) => ~result[1].ok
       /\ (Ended("ShufflePitch") /\ n >= 2 /\ FixedOutside(2, n)) => ~result[1].ok

\* C22: ShufflePitch on a melody with at least 2 Notes, with amount 2 (Minimum), the
\* number of Notes (Maximum), a value between them (Random) or the given value
\* (Fixed), returns whenever the amount lies in [2, length]; a returned melody has
\* the input's kinds, durations and Rests, and for some set of `amount` distinct Note
\* positions the pitches at these positions are a permutation of the input's pitches
\* at the same positions while every other Note keeps its pitch.
C22_ShuffleWithinChosen ==
    (Ended("ShufflePitch") /\ length(call.objects[1]) >= 2) =>
        LET m == call.objects[1]
            n == length(m)
        IN /\ (ShuffleAmounts(n) # {} /\ ShuffleAmounts(n) \subseteq 2..n) => result[1].ok
           /\ result[1].ok =>
                /\ SameRhythm(ResultMelody, m)
                /\ \E a \in ShuffleAmounts(n) : \E S \in PositionSets(n, a) :
                     PermutedWithin(Pitches(m), Pitches(ResultMelody), S)

C22_Witness ==
    /\ Ended("ShufflePitch")
    /\ call.amount_mode = "Minimum"
    /\ call.objects[1] = <<Note(1, 1), Rest(1), Note(2, 1), Note(1, 2)>>
    /\ result[1].ok
    /\ ResultMelody = <<Note(2, 1), Rest(1), Note(1, 1), Note(1, 2)>>

\* qs is ps with one bijection of the pitches held at the positions of chosen applied
\* at those positions
RemappedWithin(ps, qs, chosen) ==
    /\ Len(qs) = Len(ps)
    /\ \A i \in (1..Len(ps)) \ chosen : qs[i] = ps[i]
    /\ \A i, j \in chosen : (qs[i] = qs[j]) <=> (ps[i] = ps[j])
    /\ {qs[i] : i \in chosen} = {ps[i] : i \in chosen}

\* C23: RemapPitch on a melody with at least 2 Notes returns whenever the amount (2
\* for Minimum, the number of Notes for Maximum, a value between them for Random, the
\* given value for Fixed) lies in [2, length]; for some set of `amount` distinct Notes
\* two chosen Notes have equal pitches in the result exactly when they had equal
\* pitches in the input, the set of pitches among the chosen Notes is unchanged, the
\* other Notes keep their pitch, and kinds and durations are those of the input.
C23_RemapIsBijection ==
    (Ended("RemapPitch") /\ length(call.objects[1]) >= 2) =>
        LET m == call.objects[1]
            n == length(m)
        IN /\ (ShuffleAmounts(n) # {} /\ ShuffleAmounts(n) \subseteq 2..n) => result[1].ok
           /\ result[1].ok =>
                /\ SameRhythm(ResultMelody, m)
                /\ \E a \in ShuffleAmounts(n) : \E S \in PositionSets(n, a) :
                     RemappedWithin(Pitches(m), Pitches(ResultMelody), S)

C23_Witness ==
    /\ Ended("RemapPitch")
    /\ call.amount_mode = "Maximum"
    /\ call.objects[1] = <<Note(1, 1), Note(2, 1), Rest(1), Note(1, 2)>>
    /\ result[1].ok
    /\ ResultMelody = <<Note(2, 1), Note(1, 1), Rest(1), Note(2, 2)>>

\* C24: RevertPitch returns, for every melody, the melody whose i-th Note of n
\* carries the pitch of the input's Note n + 1 - i, with every kind, duration and
\* Rest in place; with fewer than 2 Notes the result equals the input; RevertPitch
\* of the result gives the input back.
C24_RevertMirrors ==
    Ended("RevertPitch") =>
        LET m == call.objects[1]
            n == length(m)
        IN /\ result[1].ok
           /\ SameRhythm(ResultMelody, m)
           /\ length(ResultMelody) = n
           /\ \A i \in 1..n : Pitches(ResultMelody)[i] = Pitches(m)[n + 1 - i]
           /\ n < 2 => ResultMelody = m
           /\ RevertPitch(ResultMelody) = {Returned(m)}

C24_Witness ==
    /\ Ended("RevertPitch")
    /\ call.objects[1] = <<Note(1, 1), Note(1, 2), Note(2, 2), Note(2, 1)>>
    /\ ResultMelody = <<Note(2, 1), Note(2, 2), Note(1, 2), Note(1, 1)>>

\* the amounts the mode allows ChangePitch on n Notes
ChangeAmounts(n) ==
    CASE call.amount_mode = "Minimum" -> {1}
      [] call.amount_mode = "Maximum" -> {n}
      [] call.amount_mode = "Random" -> 1..n
      [] OTHER -> IF AmountUnset(call.amount) THEN {} ELSE {call.amount[1]}

\* qs is ps with a pitch of new at each position of chosen and the others kept
ChangedWithin(ps, qs, chosen, new) ==
    /\ Len(qs) = Len(ps)
    /\ \A i \in chosen : qs[i] \in new
    /\ \A i \in (1..Len(ps)) \ chosen : qs[i] = ps[i]

\* a Fixed amount that is unset or above the number of Notes fails
ChangePitchRejects ==
    LET n == length(call.objects[1])
    IN (call.amount_mode = "Fixed"
          /\ (AmountUnset(call.amount) \/ call.amount[1] > n)) => ~result[1].ok

\* what holds of the Notes drawn with replacement: at most `amount` Notes, none for
\* an amount below 1, take a pitch of `pitches`
C25_ChangesAtMostAmount ==
    Ended("ChangePitch") =>
        LET m == call.objects[1]
            n == length(m)
        IN /\ ChangePitchRejects
           /\ result[1].ok =>
                /\ SameRhythm(ResultMelody, m)
                /\ \E a \in ChangeAmounts(n) : \E k \in 0..n : \E S \in PositionSets(n, k) :
                     /\ k <= a \/ k = 0
                     /\ ChangedWithin(Pitches(m), Pitches(ResultMelody), S,
                                      NewPitches(m, call.pitches))

\* C25: ChangePitch takes amount 1 (Minimum), the number of Notes (Maximum), a value
\* in [1, length] (Random) or the given value (Fixed, failing when it is unset or
\* above the number of Notes), selects that many distinct Notes and gives each a
\* pitch of `pitches` (the melody's own pitches by default); the Notes not selected
\* keep their pitch, and kinds and durations are unchanged. (Nothing is said of a
\* negative Fixed amount.)
C25_ChangesAmountNotes ==
    (Ended("ChangePitch") /\ ~FixedOutside(0, MaxInput + 1)) =>
        LET m == call.objects[1]
            n == length(m)
        IN /\ ChangePitchRejects
           /\ result[1].ok =>
                /\ SameRhythm(ResultMelody, m)
                /\ \E a \in ChangeAmounts(n) : \E S \in PositionSets(n, a) :
                     ChangedWithin(Pitches(m), Pitches(ResultMelody), S,
                                   NewPitches(m, call.pitches))

\* an Optional number that was given: None and 0 count as omitted
Given(x) == x # None /\ x[1] # 0

\* the greatest number that divides the duration of every event of m
CommonGrid(m) ==
    CHOOSE g \in 1..SumDur(m) :
        /\ \A i \in 1..Len(m) : Divides(g, m[i].dur)
        /\ \A h \in 1..SumDur(m) : (\A i \in 1..Len(m) : Divides(h, m[i].dur)) => h <= g

\* the arguments ChangeRhythm is to generate the new rhythm with
RhythmArgs ==
    LET m == call.objects[1]
    IN [pitches |-> <<PitchC0>>,
        length |-> length(m),
        duration |-> IF Given(call.duration) THEN call.duration[1] ELSE SumDur(m),
        grid_size |-> IF Given(call.grid_size) THEN call.grid_size[1] ELSE CommonGrid(m),
        duration_mode |-> call.duration_mode,
        note_duration |-> call.note_duration,
        alternate |-> FALSE,
        use_all |-> FALSE]

NotePosition(m, k) ==
    CHOOSE i \in 1..Len(m) :
        IsNote(m[i]) /\ Cardinality({j \in 1..i : IsNote(m[j])}) = k

\* the events of rhythm that SubstitutePitch is to retain
Retained(rhythm, sequence, crop_rhythm) ==
    IF crop_rhythm /\ length(rhythm) > length(sequence)
    THEN IF length(sequence) = 0 THEN <<>>
         ELSE SubSeq(rhythm, 1, NotePosition(rhythm, length(sequence)))
    ELSE rhythm

\* r is what SubstitutePitch is to return for rhythm and sequence
Substituted(r, rhythm, sequence, crop_rhythm) ==
    /\ SameRhythm(r, Retained(rhythm, sequence, crop_rhythm))
    /\ \A i \in 1..length(r) :
         Pitches(r)[i] = IF i <= length(sequence) THEN Pitches(sequence)[i]
                         ELSE Pitches(rhythm)[i]

\* C27: SubstitutePitch(rhythm, sequence, crop_rhythm) returns rhythm cropped to the
\* number of Notes of sequence when crop_rhythm is set and rhythm has more Notes
\* (nothing when sequence has no Notes), and all of rhythm's events otherwise; the
\* i-th Note carries the pitch of sequence's i-th Note while sequence has one and
\* rhythm's pitch beyond, and the retained kinds and durations are rhythm's.
\* SubstituteRhythm(sequence, rhythm) returns what SubstitutePitch(rhythm, sequence,
\* crop_rhythm = true) returns.
C27_SubstituteKeepsRhythm ==
    /\ Ended("SubstitutePitch") =>
         /\ result[1].ok
         /\ Substituted(ResultMelody, call.objects[call.rhythm],
                        call.objects[call.sequence], call.crop_rhythm)
    /\ Ended("SubstituteRhythm") =>
         /\ result[1].ok
         /\ Substituted(ResultMelody, call.objects[call.rhythm],
                        call.objects[call.sequence], TRUE)
         /\ SubstitutePitch(call.objects[call.rhythm], call.objects[call.sequence], TRUE)
              = {Returned(ResultMelody)}

C27_Witness ==
    /\ Ended("SubstitutePitch")
    /\ call.crop_rhythm
    /\ call.objects[call.rhythm] = <<Note(1, 2), Rest(1), Note(1, 1)>>
    /\ call.objects[call.sequence] = <<Note(2, 1)>>
    /\ ResultMelody = <<Note(2, 2)>>

(***************************************************************************)
(* Properties of the graph under an owner that propagates, checked under   *)
(* OwnerSpec                                                               *)
(***************************************************************************)
\* node n holds a melody that its method can return for the bindings as they are now
IsCurrent(n) ==
    \E r \in service_method(MethodOf[n], KwargsOf(n)) :
        r.ok /\ r.melody = value[n][1]

\* C28: when after every update_params and clear_value of a node the owner clears
\* every node downstream of it, then between the owner's operations each node that
\* holds a value has every node it is bound to holding a value, and its value is a
\* result of its method on the current bindings (the literals and the values the
\* nodes it is bound to hold now). Without the propagation a node can keep a value
\* computed from bindings that have changed since.
C28_ComputedIsCurrent ==
    stack = <<>> =>
        \A n \in Nodes : value[n] # None =>
            /\ \A d \in Dependencies(n) : value[d] # None
            /\ IsCurrent(n)

C28_Witness ==
    /\ stack = <<>>
    /\ lastop.op = "clear_value"
    /\ lastop.node = 3
    /\ hooks = <<<<"on_clear", 3>>, <<"on_clear", 2>>>>
    /\ Dependencies(2) = {1, 3}
    /\ Dependencies(3) = {1}
    /\ Truthy(value[1])

(***************************************************************************)
(* The order of one read of `value`, checked under Spec                    *)
(***************************************************************************)
\* the nodes node n is bound to, in the order of its binding map
BoundNodes(n) ==
    LET IsFormulaKey(k) == params[n][k].kind = "formula"
        ks == SelectSeq(ParamOrder(MethodOf[n]), IsFormulaKey)
    IN [i \in 1..Len(ks) |-> params[n][ks[i]].node]

InvokedNodes == {invoked[i].node : i \in DOMAIN invoked}

\* the nodes whose method a read of node n calls, in order, after the calls of acc:
\* a node that held a melody before the read, or got one in it, is not called again;
\* otherwise the nodes it is bound to come first, binding by binding, then the node
RECURSIVE Visit(_, _)
RECURSIVE VisitAll(_, _)
Visit(n, acc) ==
    IF Truthy(value[n]) /\ (n \notin InvokedNodes \/ n \in SetOf(acc)) THEN acc
    ELSE Append(VisitAll(BoundNodes(n), acc), n)

VisitAll(ns, acc) ==
    IF ns = <<>> THEN acc ELSE VisitAll(Tail(ns), Visit(Head(ns), acc))

\* the calls of the read are the first calls of that order, all of them when the
\* read succeeds
C29_BindingsInOrder ==
    (RequestDone /\ outcome # None /\ Acyclic) =>
        LET expected == Visit(lastop.node, <<>>)
        IN /\ Len(invoked) <= Len(expected)
           /\ \A i \in DOMAIN invoked : invoked[i].node = expected[i]
           /\ outcome.ok => Len(invoked) = Len(expected)

\* each call has its hook, in the order of the calls; a call is made with every
\* binding resolved; a successful call leaves its melody in the node; nothing is
\* called after a failure; what a node is bound to was called with success before
\* the node, or held a melody all along
C29_HooksFollowCalls ==
    lastop.op = "value" =>
        /\ Len(hooks) = Len(invoked)
        /\ \A j \in DOMAIN invoked :
             LET c == invoked[j]
             IN /\ hooks[j] = <<IF c.result.ok THEN "on_success" ELSE "on_error", c.node>>
                /\ c.kwargs = KwargsOf(c.node)
                /\ c.result.ok => value[c.node] = Some(c.result.melody)
                /\ ~c.result.ok => j = Len(invoked)
                /\ \A d \in Dependencies(c.node) :
                     \/ \E i \in 1..(j - 1) : invoked[i].node = d /\ invoked[i].result.ok
                     \/ Truthy(value[d]) /\ d \notin InvokedNodes

\* a read of `value` empties no node
C29_NothingEmptied ==
    lastop'.op = "value" => \A n \in Nodes : value[n] # None => value'[n] # None

\* C29: a read of `value` resolves the node's bindings one after another in the
\* order of the binding map and only then calls the node's method, so the on_success
\* of a node it is bound to comes before its own; when the read fails, every node
\* evaluated with success before the failing step holds its melody and had its
\* on_success, no binding after the failing one is evaluated, and no node that held
\* a value before the read is left without one.
C29_EvaluationOrder ==
    /\ []C29_BindingsInOrder
    /\ []C29_HooksFollowCalls
    /\ [][C29_NothingEmptied]_vars

C29_Witness ==
    /\ RequestDone
    /\ outcome # None
    /\ ~outcome.ok
    /\ lastop.node = 2
    /\ params[2]["melody_1"] = Formula(3)
    /\ params[2]["melody_2"] = Formula(1)
    /\ hooks = <<<<"on_success", 3>>, <<"on_error", 1>>>>
    /\ value[3] # None
    /\ value[1] = None

(***************************************************************************)
(* Progress of the insertion loop, checked under GenFairSpec               *)
(***************************************************************************)
InLoop == pc = "insert" /\ Len(chosen_pitches) < args.length

\* the pitch differs from both neighbours of the 0-based position idx of seq
FitsAt(seq, idx, pitch) ==
    /\ idx > 0 => seq[idx] # pitch
    /\ idx < Len(seq) => seq[idx + 1] # pitch

Fits(seq, pitch) == \E idx \in 0..Len(seq) : FitsAt(seq, idx, pitch)

\* some pitch can be placed somewhere
C30_SomePitchFits ==
    InLoop =>
        /\ Cardinality(SetOf(args.pitches)) >= 2
        /\ \E pitch \in SetOf(args.pitches) : Fits(chosen_pitches, pitch)

\* a pass of the loop: the pitch drawn goes in at a place where it fits, and the
\* pitches placed before stay, in their order; with no such place nothing changes
C30_PassKeepsPlaced ==
    (InLoop /\ pc' = "insert") =>
        LET pitch == inserted'[1]
        IN IF Fits(chosen_pitches, pitch)
           THEN \E idx \in 0..Len(chosen_pitches) :
                  /\ FitsAt(chosen_pitches, idx, pitch)
                  /\ chosen_pitches' = SubSeq(chosen_pitches, 1, idx) \o <<pitch>>
                         \o SubSeq(chosen_pitches, idx + 1, Len(chosen_pitches))
           ELSE chosen_pitches' = chosen_pitches

\* the loop is left with exactly `length` pitches
C30_LoopEnds == pc = "insert" ~> (pc = "assign" /\ Len(chosen_pitches) = args.length)

\* C30: in the insertion loop of the alternate mode (at least 2 distinct pitches),
\* every list shorter than `length` has a pitch and a place for it between
\* neighbours that differ from it; a draw with no such place leaves the list as it
\* is, and no pitch placed is removed or moved; so, when every pitch keeps being
\* drawn, the loop ends with exactly `length` pitches.
C30_InsertionProgress ==
    /\ []C30_SomePitchFits
    /\ [][C30_PassKeepsPlaced]_vars
    /\ C30_LoopEnds

C30_Witness ==
    /\ pc = "assign"
    /\ args.alternate
    /\ ~args.use_all
    /\ args.length = 3
    /\ chosen_pitches = <<1, 2, 1>>
    /\ inserted = Some(1)

====
